---- MODULE Spec2Model ----
(***************************************************************************)
(* Token lifecycle of the authentication core: login, refresh rotation,    *)
(* logout, password reset (request / confirm) and the janitor purge, run   *)
(* as concurrent request transactions against a relational store.          *)
(*                                                                         *)
(* The store is modelled as the code uses it: every request owns one       *)
(* session (get_db) whose flushed statements stay private until the        *)
(* session commits, and are dropped on rollback.  Statements read the      *)
(* committed tables plus the session's own writes (READ COMMITTED);        *)
(* SELECT ... FOR UPDATE and UPDATE take row locks held until the session  *)
(* ends; a statement that needs a row another session has locked waits.    *)
(* A bulk UPDATE / DELETE picks its target rows when the statement starts  *)
(* and re-checks its WHERE clause on each target once the row is free.     *)
(*                                                                         *)
(* One tick of the clock is one second, the resolution of the "exp" claim  *)
(* of a signed token.                                                      *)
(***************************************************************************)
EXTENDS Naturals, FiniteSets

\* ---------------------------------------------------------------- bounds
MaxTime == 3
MaxCalls == 3
MaxSeqCalls == 4
MaxResetTokens == 2
MaxUserCalls == 3
MaxAuditedTime == 2

\* ------------------------------------------------------ program settings
ACCESS_TOKEN_EXPIRE == 1
REFRESH_TOKEN_EXPIRE == 2
PASSWORD_RESET_TOKEN_EXPIRE == 1

\* ---------------------------------------------------------------- inputs
Procs == {1, 2}
Users == {"u1"}
NoUser == "nobody"
Passwords == {"StrongPass1", "NewStrong1"}
Email == [u \in Users |-> "u1@x.com"]
Username == [u \in Users |-> "alice"]
Identifiers == {"u1@x.com", "alice", "nobody@x.com"}
Emails == {"u1@x.com", "nobody@x.com"}
RegEmails == {"u1@x.com", "bob@x.com"}
RegUsernames == {"alice", "bob", "rob"}

\* ------------------------------------------------------------ TokenCodec
\* A signed token is its claim set; "garbage" stands for a string whose
\* signature does not verify.
Tok(type, sub, exp) == [type |-> type, sub |-> sub, exp |-> exp]
NoTok == Tok("none", NoUser, 0)
Garbage == Tok("garbage", NoUser, 0)

create_access_token(subject, t) == Tok("access", subject, t + ACCESS_TOKEN_EXPIRE)

create_refresh_token(subject, t) == Tok("refresh", subject, t + REFRESH_TOKEN_EXPIRE)

\* jwt.decode: the signature must verify and exp must not lie before now.
jwt_decode_ok(tok, t) == tok.type \in {"access", "refresh"} /\ ~(tok.exp < t)

hash_token(raw) == [sha256 |-> raw]

get_password_hash(password) == [bcrypt |-> password]

verify_password(plain, hashed) == hashed = [bcrypt |-> plain]

\* ----------------------------------------------------------------- state
VARIABLES
    now,                    \* the clock, in seconds
    users,                  \* users table: user id -> [email, username, password_hash, role]
    refresh_tokens,         \* committed rows of refresh_tokens
    password_reset_tokens,  \* committed rows of password_reset_tokens
    tx,                     \* per request slot: the handler's position and its session
    janitor,                \* the periodic cleanup task: position and statement targets
    nonce,                  \* reset tokens drawn from secrets.token_urlsafe so far
    calls,                  \* requests that went on to wait on the store
    budget,                 \* requests of that kind the clients send at most
    rotated,                \* history: raw refresh tokens a committed refresh has rotated
    loggedOut,              \* history: raw refresh tokens a committed logout has revoked
    confirmed               \* history: raw reset tokens a committed confirm_reset has used

vars == <<now, users, refresh_tokens, password_reset_tokens, tx, janitor, nonce,
          calls, budget, rotated, loggedOut, confirmed>>

\* ------------------------------------------------------------- responses
Response(status, detail) ==
    [status |-> status, detail |-> detail, access |-> NoTok, refresh |-> NoTok]

NoResponse == Response(0, "")

TokenResponse(access, refresh) ==
    [status |-> 200, detail |-> "bearer", access |-> access, refresh |-> refresh]

UnauthorizedException(detail) == Response(401, detail)

AppException(detail) == Response(400, detail)

NotFoundException(detail) == Response(404, detail)

PasswordResetResponse(message) == Response(200, message)

ConflictException(detail) == Response(409, detail)

\* OAuth2PasswordBearer answers a request that carries no bearer token.
NotAuthenticated == Response(401, "Not authenticated")

\* schemas/user.py, UserResponse: the fields of the row the client is shown.
UserResponse(id, row) ==
    [status |-> 200, detail |-> "user", access |-> NoTok, refresh |-> NoTok,
     id |-> id, email |-> row.email, username |-> row.username]

\* An exception no handler translates (IntegrityError, StaleDataError).
ServerError == Response(500, "Internal Server Error")

\* The request came without client address and without User-Agent header.
NoMetadata == [ip_address |-> "none", user_agent |-> "none"]

\* ---------------------------------------------------------------- session
\* A request slot with no request in it.
Idle ==
    [op |-> "idle", pc |-> "idle",
     token |-> NoTok, rtoken |-> 0, ident |-> "", pw |-> "",
     user |-> NoUser, access |-> NoTok, newtok |-> NoTok,
     ins |-> {}, lck |-> {}, rev |-> {},
     rins |-> {}, rused |-> {}, pwset |-> FALSE, newhash |-> get_password_hash(""),
     uname |-> "", uins |-> {}, uupd |-> {}, udel |-> {}, del |-> {}, rdel |-> {},
     snap |-> {}, rsnap |-> {}, meta |-> NoMetadata, result |-> NoResponse]

\* The handler has returned or raised: the session is over, the response stays
\* until the slot is reused.
Done(t, response) ==
    [Idle EXCEPT !.op = t.op, !.pc = "done", !.token = t.token, !.rtoken = t.rtoken,
                 !.ident = t.ident, !.pw = t.pw, !.user = t.user, !.result = response]

\* A row of users as UserService.create_user writes it (models/user.py, line
\* 16: the role column's default).
UserRow(email, username, password_hash) ==
    [email |-> email, username |-> username, password_hash |-> password_hash,
     role |-> "user"]

\* models/enums.py, UserRole.
UserRole == {"admin", "user"}

\* The migration b2c3d4e5f6g7 (upgrade, line 24) adds users.role as NOT NULL
\* with server default 'viewer': a row that was there before it gets that value.
upgrade(row) == [row EXCEPT !.role = "viewer"]

RefreshRow(h, u, exp) == [token_hash |-> h, user_id |-> u, expires_at |-> exp, revoked |-> FALSE]

ResetRow(h, u, exp) == [token_hash |-> h, user_id |-> u, expires_at |-> exp, used |-> FALSE]

\* Rows of refresh_tokens as session t sees them: committed rows with its own
\* flushed updates, and its own flushed inserts.
RefreshView(t) ==
    {IF r.token_hash \in t.rev THEN [r EXCEPT !.revoked = TRUE] ELSE r : r \in refresh_tokens}
        \cup t.ins

ResetView(t) ==
    {IF r.token_hash \in t.rused THEN [r EXCEPT !.used = TRUE] ELSE r : r \in password_reset_tokens}
        \cup t.rins

\* Row locks held by sessions other than p's.
RefreshLockedByOther(p, h) == \E q \in Procs \ {p} : h \in tx[q].lck

ResetLockedByOther(p, h) == \E q \in Procs \ {p} : h \in tx[q].rused \cup tx[q].rdel

\* The row of user u is held by another session's UPDATE or DELETE.
UserLockedByOther(p, u) ==
    \E q \in Procs \ {p} :
        \/ tx[q].pwset /\ tx[q].user = u
        \/ u \in tx[q].udel
        \/ \E r \in tx[q].uupd : r.id = u

\* The foreign key of a token row on users.id.  The INSERT of a token row
\* takes a key-share lock on the user's row: it waits while another session's
\* DELETE of that row, or UPDATE of its unique columns, is not committed, and
\* it fails when the row is gone.  The other way round, a DELETE of the user's
\* row waits for the sessions that have inserted token rows of that user.
ParentLockedByOther(p, u) ==
    \E q \in Procs \ {p} : u \in tx[q].udel \/ \E r \in tx[q].uupd : r.id = u

ParentGone(u) == u \notin DOMAIN users

ChildInsertedByOther(p, u) ==
    \E q \in Procs \ {p} : \E r \in tx[q].ins \cup tx[q].rins : r.user_id = u

\* The unique index on the token key: a flushed, uncommitted insert of the same
\* key by another session makes the insert wait; a committed row makes it fail.
InsertWaits(p, h) == \E q \in Procs \ {p} : \E r \in tx[q].ins : r.token_hash = h

InsertConflicts(h) == \E r \in refresh_tokens : r.token_hash = h

\* session.commit(): the flushed statements become the committed tables.
CommitRefresh(t, rows) ==
    {IF r.token_hash \in t.rev THEN [r EXCEPT !.revoked = TRUE] ELSE r :
        r \in {x \in rows : x.token_hash \notin t.del}} \cup t.ins

CommitReset(t, rows) ==
    {IF r.token_hash \in t.rused THEN [r EXCEPT !.used = TRUE] ELSE r :
        r \in {x \in rows : x.token_hash \notin t.rdel}} \cup t.rins

CommitUsers(t, us) ==
    IF t.uins = {} /\ t.uupd = {} /\ t.udel = {}
    THEN IF t.pwset THEN [us EXCEPT ![t.user].password_hash = t.newhash] ELSE us
    ELSE [u \in (DOMAIN us \ t.udel) \cup {r.id : r \in t.uins} |->
            IF \E r \in t.uins : r.id = u
            THEN LET r == CHOOSE x \in t.uins : x.id = u
                 IN  UserRow(r.email, r.username, r.password_hash)
            ELSE IF \E r \in t.uupd : r.id = u
            THEN LET r == CHOOSE x \in t.uupd : x.id = u
                 IN  [us[u] EXCEPT !.email = r.email, !.username = r.username]
            ELSE us[u]]

\* A rollback that lets the flushed UPDATEs through (what a session in
\* autocommit would leave behind).
RollbackKeepsUpdates(t, rows) ==
    {IF r.token_hash \in t.rev THEN [r EXCEPT !.revoked = TRUE] ELSE r : r \in rows}

\* session.rollback() / session.close(): the flushed statements are dropped.
RollbackRefresh(t, rows) == rows

\* A rollback that leaves the flushed mark_used in the table.
RollbackKeepsUsed(t, rows) ==
    {IF r.token_hash \in t.rused THEN [r EXCEPT !.used = TRUE] ELSE r : r \in rows}

RollbackReset(t, rows) == rows

\* ------------------------------------------------------------------ Init
Init ==
    /\ now = 0
    /\ users = [u \in Users |-> UserRow(Email[u], Username[u],
                                         get_password_hash("StrongPass1"))]
    /\ refresh_tokens = {}
    /\ password_reset_tokens = {}
    /\ tx = [p \in Procs |-> Idle]
    /\ janitor = [pc |-> "sleep", snap |-> {}]
    /\ nonce = 0
    /\ calls = 0
    /\ budget = MaxCalls
    /\ rotated = {}
    /\ loggedOut = {}
    /\ confirmed = {}

\* A request takes the lowest free slot (the slots are interchangeable).
CanStart(p) ==
    /\ tx[p].pc = "idle"
    /\ \A q \in Procs : q < p => tx[q].pc # "idle"
    /\ calls < budget
    /\ \A q \in Procs : tx[q].pc # "done"

\* A finished request's response is delivered before anything else happens.
Delivered == \A q \in Procs : tx[q].pc # "done"

\* A step of the request in slot p.
Running(p, op, pc) == tx[p].op = op /\ tx[p].pc = pc /\ Delivered

hist == <<rotated, loggedOut, confirmed>>
tables == <<users, refresh_tokens, password_reset_tokens>>

\* Raw refresh-token strings a client can present.
RefreshInputs ==
    {Tok(ty, u, e) : ty \in {"refresh", "access"}, u \in Users \cup DOMAIN users,
                     e \in REFRESH_TOKEN_EXPIRE .. (now + REFRESH_TOKEN_EXPIRE)}
        \cup {Garbage}

\* Bearer tokens a client can present: tokens the server has signed for a
\* user, of either type, a string that does not verify, and none at all.
AccessInputs ==
    {Tok("access", u, e) : u \in Users \cup DOMAIN users,
                           e \in ACCESS_TOKEN_EXPIRE .. (now + ACCESS_TOKEN_EXPIRE)}
        \cup {Tok("refresh", u, e) : u \in Users \cup DOMAIN users,
                                     e \in REFRESH_TOKEN_EXPIRE .. (now + REFRESH_TOKEN_EXPIRE)}
        \cup {Garbage, NoTok}

\* The same without the tokens whose time has passed.
BearerInputs == {k \in AccessInputs : k \in {Garbage, NoTok} \/ ~(k.exp < now)}

\* uuid.uuid4: a value no row has had; the requests that reach the store are
\* counted, and each gets the next one.
uuid4 == <<"u2", "u3", "u4", "u5", "u6", "u7", "u8">>[calls + 1]

\* get_db, lines 207-214: the handler's step leaves the request at `next`; an
\* exception leaving the handler rolls the session back and is the response.
Step(p, next) ==
    /\ tx' = [tx EXCEPT ![p] = next]
    /\ refresh_tokens' = IF next.pc = "done"
                         THEN RollbackRefresh(tx[p], refresh_tokens) ELSE refresh_tokens
    /\ password_reset_tokens' = IF next.pc = "done"
                                THEN RollbackReset(tx[p], password_reset_tokens)
                                ELSE password_reset_tokens
    /\ users' = users

\* A request that ends in its first step never waited on the store.
Started(p, next) ==
    /\ Step(p, next)
    /\ calls' = IF next.pc = "done" THEN calls ELSE calls + 1
    /\ budget' = budget

\* ------------------------------------------------------------- CredentialStore
get_by_email_or_username(identifier) ==
    {u \in DOMAIN users : users[u].email = identifier \/ users[u].username = identifier}

get_by_email(email) == {u \in DOMAIN users : users[u].email = email}

\* ------------------------------------------------------------- AuthFlow: login
\* A login whose row is keyed by the access token instead of the refresh token.
LoginInsertKeyedByAccess(p, t) ==
    LET h == hash_token(t.access)
    IN  IF InsertWaits(p, h) \/ ParentLockedByOther(p, t.user) THEN [t EXCEPT !.pc = "insert"]
        ELSE IF InsertConflicts(h) \/ ParentGone(t.user) THEN Done(t, ServerError)
        ELSE [t EXCEPT !.pc = "commit", !.ins = {RefreshRow(h, t.user, t.newtok.exp)}]

\* The early login, whose row stores the refresh token as it was signed.
LoginInsertRaw(p, t) ==
    LET h == t.newtok
    IN  IF InsertWaits(p, h) \/ ParentLockedByOther(p, t.user) THEN [t EXCEPT !.pc = "insert"]
        ELSE IF InsertConflicts(h) \/ ParentGone(t.user) THEN Done(t, ServerError)
        ELSE [t EXCEPT !.pc = "commit", !.ins = {RefreshRow(h, t.user, t.newtok.exp)}]

\* token_repo.create (AuthService.login, line 38): flush the INSERT of the new
\* refresh row.
LoginInsert(p, t) ==
    LET h == hash_token(t.newtok)
    IN  IF InsertWaits(p, h) \/ ParentLockedByOther(p, t.user) THEN [t EXCEPT !.pc = "insert"]
        ELSE IF InsertConflicts(h) \/ ParentGone(t.user) THEN Done(t, ServerError)
        ELSE [t EXCEPT !.pc = "commit", !.ins = {RefreshRow(h, t.user, t.newtok.exp)}]

\* A login that tells an unknown identifier from a wrong password.
login_telling_cause(p, identifier, password) ==
    LET t == [Idle EXCEPT !.op = "login", !.ident = identifier, !.pw = password]
        found == get_by_email_or_username(identifier)
    IN  IF found = {}
        THEN Done(t, UnauthorizedException("User not found"))
        ELSE LET user == CHOOSE x \in found : TRUE
             IN  IF ~verify_password(password, users[user].password_hash)
                 THEN Done([t EXCEPT !.user = user],
                           UnauthorizedException("Incorrect email/username or password"))
                 ELSE LoginInsert(p, [t EXCEPT !.user = user,
                                               !.access = create_access_token(user, now),
                                               !.newtok = create_refresh_token(user, now)])

\* AuthService.login, lines 24-37: look the user up, verify the password, sign
\* both tokens; the row's expires_at is taken from the same clock reading.
login(p, identifier, password) ==
    LET t == [Idle EXCEPT !.op = "login", !.ident = identifier, !.pw = password]
        found == get_by_email_or_username(identifier)
    IN  IF found = {}
        THEN Done(t, UnauthorizedException("Incorrect email/username or password"))
        ELSE LET user == CHOOSE x \in found : TRUE
             IN  IF ~verify_password(password, users[user].password_hash)
                 THEN Done([t EXCEPT !.user = user],
                           UnauthorizedException("Incorrect email/username or password"))
                 ELSE LoginInsert(p, [t EXCEPT !.user = user,
                                               !.access = create_access_token(user, now),
                                               !.newtok = create_refresh_token(user, now)])

LoginBegin(p) ==
    /\ CanStart(p)
    /\ \E identifier \in Identifiers, password \in Passwords :
         Started(p, login(p, identifier, password))
    /\ UNCHANGED <<now, janitor, nonce, hist>>

\* The INSERT waited for another session's insert of the same key to end.
LoginResume(p) ==
    /\ Running(p, "login", "insert")
    /\ ~InsertWaits(p, hash_token(tx[p].newtok))
    /\ ~ParentLockedByOther(p, tx[p].user)
    /\ Step(p, LoginInsert(p, tx[p]))
    /\ UNCHANGED <<now, janitor, nonce, calls, budget, hist>>

\* ----------------------------------------------------------- AuthFlow: refresh
\* A rotation that leaves the presented token's row as it is.
RefreshRotateKeepsOld(p, t) ==
    LET h == hash_token(t.newtok)
    IN  IF InsertWaits(p, h) \/ ParentLockedByOther(p, t.user) THEN [t EXCEPT !.pc = "rotate"]
        ELSE IF InsertConflicts(h) \/ ParentGone(t.user) THEN Done(t, ServerError)
        ELSE [t EXCEPT !.pc = "commit",
                       !.ins = {RefreshRow(h, t.user, t.newtok.exp)}]

\* A rotation that stores the successor under the user whose row was stored
\* last before it, not under the subject of the presented token.
RefreshRotateForLatest(p, t) ==
    LET h == hash_token(t.newtok)
        latest == CHOOSE r \in refresh_tokens :
                      \A x \in refresh_tokens : x.expires_at <= r.expires_at
    IN  IF InsertWaits(p, h) \/ ParentLockedByOther(p, t.user) THEN [t EXCEPT !.pc = "rotate"]
        ELSE IF InsertConflicts(h) \/ ParentGone(t.user) THEN Done(t, ServerError)
        ELSE [t EXCEPT !.pc = "commit",
                       !.ins = {RefreshRow(h, latest.user_id, t.newtok.exp)},
                       !.rev = {hash_token(t.token)}]

\* AuthService.refresh_access_token, lines 77-78: the flush sends the INSERT of
\* the new row and the UPDATE that revokes the old one.
RefreshRotate(p, t) ==
    LET h == hash_token(t.newtok)
    IN  IF InsertWaits(p, h) \/ ParentLockedByOther(p, t.user) THEN [t EXCEPT !.pc = "rotate"]
        ELSE IF InsertConflicts(h) \/ ParentGone(t.user) THEN Done(t, ServerError)
        ELSE [t EXCEPT !.pc = "commit",
                       !.ins = {RefreshRow(h, t.user, t.newtok.exp)},
                       !.rev = {hash_token(t.token)}]

\* A lookup that rotates a revoked row again.
RefreshLookupIgnoresRevoked(p, t) ==
    LET h == hash_token(t.token)
        found == {r \in RefreshView(t) : r.token_hash = h}
    IN  IF RefreshLockedByOther(p, h) THEN [t EXCEPT !.pc = "lookup"]
        ELSE IF found = {}
        THEN Done(t, UnauthorizedException("Refresh token not found"))
        ELSE LET stored_token == CHOOSE r \in found : TRUE
             IN  IF stored_token.expires_at < now
                 THEN Done(t, UnauthorizedException("Token expired"))
                 ELSE RefreshRotate(p, [t EXCEPT !.lck = {h},
                                                 !.access = create_access_token(t.user, now),
                                                 !.newtok = create_refresh_token(t.user, now)])

\* A lookup without FOR UPDATE: it reads the committed row and goes on while
\* another session holds the row.
RefreshLookupNoLock(p, t) ==
    LET h == hash_token(t.token)
        found == {r \in RefreshView(t) : r.token_hash = h}
    IN  IF found = {}
        THEN Done(t, UnauthorizedException("Refresh token not found"))
        ELSE LET stored_token == CHOOSE r \in found : TRUE
             IN  IF stored_token.revoked
                 THEN Done(t, UnauthorizedException("Token revoked"))
                 ELSE IF stored_token.expires_at < now
                 THEN Done(t, UnauthorizedException("Token expired"))
                 ELSE RefreshRotate(p, [t EXCEPT !.lck = {h},
                                                 !.access = create_access_token(t.user, now),
                                                 !.newtok = create_refresh_token(t.user, now)])

\* Lines 53-76: SELECT ... FOR UPDATE, the three rejections, then the new pair
\* is signed for the subject of the presented token.
RefreshLookup(p, t) ==
    LET h == hash_token(t.token)
        found == {r \in RefreshView(t) : r.token_hash = h}
    IN  IF RefreshLockedByOther(p, h) THEN [t EXCEPT !.pc = "lookup"]
        ELSE IF found = {}
        THEN Done(t, UnauthorizedException("Refresh token not found"))
        ELSE LET stored_token == CHOOSE r \in found : TRUE
             IN  IF stored_token.revoked
                 THEN Done(t, UnauthorizedException("Token revoked"))
                 ELSE IF stored_token.expires_at < now
                 THEN Done(t, UnauthorizedException("Token expired"))
                 ELSE RefreshRotate(p, [t EXCEPT !.lck = {h},
                                                 !.access = create_access_token(t.user, now),
                                                 !.newtok = create_refresh_token(t.user, now)])

\* A refresh that consults the ledger first and decodes the token afterwards.
refresh_lookup_first(p, refresh_token) ==
    LET t == [Idle EXCEPT !.op = "refresh", !.token = refresh_token]
        looked == RefreshLookup(p, [t EXCEPT !.user = refresh_token.sub])
    IN  IF looked.pc = "done" THEN looked
        ELSE IF ~jwt_decode_ok(refresh_token, now)
        THEN Done(t, UnauthorizedException("Invalid refresh token"))
        ELSE IF refresh_token.type # "refresh"
        THEN Done(t, UnauthorizedException("Invalid token type."))
        ELSE looked

\* Lines 44-51: the token is decoded before any store access.
refresh_access_token(p, refresh_token) ==
    LET t == [Idle EXCEPT !.op = "refresh", !.token = refresh_token]
    IN  IF ~jwt_decode_ok(refresh_token, now)
        THEN Done(t, UnauthorizedException("Invalid refresh token"))
        ELSE IF refresh_token.type # "refresh"
        THEN Done(t, UnauthorizedException("Invalid token type."))
        ELSE RefreshLookup(p, [t EXCEPT !.user = refresh_token.sub])

RefreshBegin(p) ==
    /\ CanStart(p)
    /\ \E refresh_token \in RefreshInputs : Started(p, refresh_access_token(p, refresh_token))
    /\ UNCHANGED <<now, janitor, nonce, hist>>

\* The row lock, or the unique index, the request waited for is free.
RefreshResume(p) ==
    /\ \/ /\ Running(p, "refresh", "lookup")
          /\ ~RefreshLockedByOther(p, hash_token(tx[p].token))
          /\ Step(p, RefreshLookup(p, tx[p]))
       \/ /\ Running(p, "refresh", "rotate")
          /\ ~InsertWaits(p, hash_token(tx[p].newtok))
          /\ ~ParentLockedByOther(p, tx[p].user)
          /\ Step(p, RefreshRotate(p, tx[p]))
       \/ /\ Running(p, "refresh", "gone")
          /\ Step(p, Done(tx[p], UnauthorizedException("Refresh token not found")))
    /\ UNCHANGED <<now, janitor, nonce, calls, budget, hist>>

\* ------------------------------------------------------------ AuthFlow: logout
\* The early revoke_token: any row that exists is revoked again.
revoke_token_unconditional(p, t) ==
    \E r \in RefreshView(t) : r.token_hash = hash_token(t.token)

\* TokenRepository.revoke_token, lines 29-34.
revoke_token(p, t) ==
    LET h == hash_token(t.token)
        found == {r \in RefreshView(t) : r.token_hash = h}
    IN  found # {} /\ ~(CHOOSE r \in found : TRUE).revoked

\* AuthService.logout, lines 88-91.
logout(p, t) ==
    LET h == hash_token(t.token)
    IN  IF RefreshLockedByOther(p, h) THEN [t EXCEPT !.pc = "lookup"]
        ELSE IF revoke_token(p, t)
        THEN [t EXCEPT !.pc = "commit", !.lck = {h}, !.rev = {h}]
        ELSE Done(t, UnauthorizedException("Invalid or already revoked token"))

LogoutBegin(p) ==
    /\ CanStart(p)
    /\ \E refresh_token \in {k \in RefreshInputs : k.type # "access"} :
         Started(p, logout(p, [Idle EXCEPT !.op = "logout", !.token = refresh_token]))
    /\ UNCHANGED <<now, janitor, nonce, hist>>

LogoutResume(p) ==
    /\ \/ /\ Running(p, "logout", "lookup")
          /\ ~RefreshLockedByOther(p, hash_token(tx[p].token))
          /\ Step(p, logout(p, tx[p]))
       \/ /\ Running(p, "logout", "gone")
          /\ Step(p, Done(tx[p], UnauthorizedException("Invalid or already revoked token")))
    /\ UNCHANGED <<now, janitor, nonce, calls, budget, hist>>

\* ------------------------------------------------------------- end of request
\* What the endpoint returns once the service call has returned.  The raw
\* reset token request_reset returns is logged, not sent.
Success(t) ==
    CASE t.op \in {"login", "refresh"} -> TokenResponse(t.access, t.newtok)
      [] t.op = "logout" -> Response(204, "")
      [] t.op = "request_reset" ->
             PasswordResetResponse("If the email exists, a reset link has been sent.")
      [] t.op \in {"create_user", "update_user"} ->
             UserResponse(t.user, CommitUsers(t, users)[t.user])
      [] t.op = "delete_user" -> Response(204, "")
      [] OTHER -> PasswordResetResponse("Password has been reset successfully.")

\* --------------------------------------------------- ResetFlow: request_reset
\* PasswordResetRepository.revoke_all_for_user and lines 44-54 of request_reset:
\* the UPDATE marks its targets that are still unused, then the new token's row
\* is inserted.
RequestRevoke(p, t) ==
    LET still == {r.token_hash : r \in {x \in password_reset_tokens :
                                          x.token_hash \in t.snap /\ ~x.used}}
    IN  IF (\E h \in t.snap : ResetLockedByOther(p, h)) \/ ParentLockedByOther(p, t.user)
        THEN [t EXCEPT !.pc = "revoke"]
        ELSE IF ParentGone(t.user) THEN Done(t, ServerError)
        ELSE [t EXCEPT !.pc = "commit", !.snap = {}, !.rused = still,
                       !.rins = {ResetRow(hash_token(t.rtoken), t.user,
                                          now + PASSWORD_RESET_TOKEN_EXPIRE)}]

\* A request_reset that tells the caller the email is unknown.
request_reset_telling_absence(p, email) ==
    LET t == [Idle EXCEPT !.op = "request_reset", !.ident = email]
        found == get_by_email(email)
    IN  IF found = {} THEN Done(t, NotFoundException("User not found"))
        ELSE LET user == CHOOSE x \in found : TRUE
             IN  RequestRevoke(p, [t EXCEPT !.user = user, !.rtoken = nonce + 1,
                                            !.snap = {r.token_hash : r \in
                                                        {x \in password_reset_tokens :
                                                           x.user_id = user /\ ~x.used}}])

\* A request_reset whose bulk UPDATE has no user_id in its WHERE clause.
request_reset_revoking_all(p, email) ==
    LET t == [Idle EXCEPT !.op = "request_reset", !.ident = email]
        found == get_by_email(email)
    IN  IF found = {} THEN Done(t, Success(t))
        ELSE LET user == CHOOSE x \in found : TRUE
             IN  RequestRevoke(p, [t EXCEPT !.user = user, !.rtoken = nonce + 1,
                                            !.snap = {r.token_hash : r \in
                                                        {x \in password_reset_tokens : ~x.used}}])

\* PasswordResetService.request_reset, lines 33-41: look the user up; the bulk
\* UPDATE starts and picks the user's unused rows.  secrets.token_urlsafe
\* never repeats a value.
request_reset(p, email) ==
    LET t == [Idle EXCEPT !.op = "request_reset", !.ident = email]
        found == get_by_email(email)
    IN  IF found = {} THEN Done(t, Success(t))
        ELSE LET user == CHOOSE x \in found : TRUE
             IN  RequestRevoke(p, [t EXCEPT !.user = user, !.rtoken = nonce + 1,
                                            !.snap = {r.token_hash : r \in
                                                        {x \in password_reset_tokens :
                                                           x.user_id = user /\ ~x.used}}])

RequestBegin(p) ==
    /\ CanStart(p)
    /\ nonce < MaxResetTokens
    /\ \E email \in Emails :
         /\ Started(p, request_reset(p, email))
         /\ nonce' = IF get_by_email(email) = {} THEN nonce ELSE nonce + 1
    /\ UNCHANGED <<now, janitor, hist>>

RequestResume(p) ==
    /\ Running(p, "request_reset", "revoke")
    /\ \A h \in tx[p].snap : ~ResetLockedByOther(p, h)
    /\ ~ParentLockedByOther(p, tx[p].user)
    /\ Step(p, RequestRevoke(p, tx[p]))
    /\ UNCHANGED <<now, janitor, nonce, calls, budget, hist>>

\* --------------------------------------------------- ResetFlow: confirm_reset
\* A confirm_reset that leaves the user's refresh tokens alone.
ConfirmRevokesNothing(p, t) == [t EXCEPT !.pc = "commit", !.snap = {}]

\* TokenRepository.revoke_all_for_user: the UPDATE revokes its targets that are
\* still there and still not revoked.
ConfirmRevokeAll(p, t) ==
    LET still == {r.token_hash : r \in {x \in refresh_tokens :
                                          x.token_hash \in t.snap /\ ~x.revoked}}
    IN  IF \E h \in t.snap : RefreshLockedByOther(p, h) THEN [t EXCEPT !.pc = "revoke"]
        ELSE [t EXCEPT !.pc = "commit", !.snap = {}, !.rev = still, !.lck = still]

\* PasswordResetService.confirm_reset, lines 99-102: mark_used flushes
\* UPDATE ... WHERE id = <row>, which fails on a row that is gone; then the bulk
\* UPDATE of revoke_all_for_user starts and picks the user's non-revoked rows.
ConfirmMarkUsed(p, t) ==
    LET h == hash_token(t.rtoken)
    IN  IF ResetLockedByOther(p, h) THEN [t EXCEPT !.pc = "mark"]
        ELSE IF ~\E r \in password_reset_tokens : r.token_hash = h THEN Done(t, ServerError)
        ELSE ConfirmRevokeAll(p, [t EXCEPT !.rused = {h},
                                           !.snap = {r.token_hash : r \in
                                                       {x \in refresh_tokens :
                                                          x.user_id = t.user /\ ~x.revoked}}])

\* Lines 95-96: the new hash is set and flushed (UPDATE users).
ConfirmSetPassword(p, t) ==
    IF UserLockedByOther(p, t.user) THEN [t EXCEPT !.pc = "setpw"]
    ELSE IF ParentGone(t.user) THEN Done(t, ServerError)
    ELSE ConfirmMarkUsed(p, [t EXCEPT !.pwset = TRUE, !.newhash = get_password_hash(t.pw)])

\* A confirm_reset that does not look at `used`.
confirm_reset_ignores_used(p, token, new_password) ==
    LET t == [Idle EXCEPT !.op = "confirm_reset", !.rtoken = token, !.pw = new_password]
        found == {r \in password_reset_tokens : r.token_hash = hash_token(token)}
    IN  IF found = {}
        THEN Done(t, AppException("Invalid or expired reset token"))
        ELSE LET stored_token == CHOOSE r \in found : TRUE
             IN  IF stored_token.expires_at < now
                 THEN Done(t, AppException("Invalid or expired reset token"))
                 ELSE IF stored_token.user_id \notin DOMAIN users
                 THEN Done(t, NotFoundException("User not found"))
                 ELSE ConfirmSetPassword(p, [t EXCEPT !.user = stored_token.user_id])

\* A confirm_reset that tells an expired token from an unknown or used one.
confirm_reset_telling_expiry(p, token, new_password) ==
    LET t == [Idle EXCEPT !.op = "confirm_reset", !.rtoken = token, !.pw = new_password]
        found == {r \in password_reset_tokens : r.token_hash = hash_token(token)}
    IN  IF found = {}
        THEN Done(t, AppException("Invalid or expired reset token"))
        ELSE LET stored_token == CHOOSE r \in found : TRUE
             IN  IF stored_token.used
                 THEN Done(t, AppException("Invalid or expired reset token"))
                 ELSE IF stored_token.expires_at < now
                 THEN Done(t, AppException("Reset token has expired"))
                 ELSE IF stored_token.user_id \notin DOMAIN users
                 THEN Done(t, NotFoundException("User not found"))
                 ELSE ConfirmSetPassword(p, [t EXCEPT !.user = stored_token.user_id])

\* Lines 71-92: the token row is read without a lock, the three rejections
\* share one error, the user is loaded.
confirm_reset(p, token, new_password) ==
    LET t == [Idle EXCEPT !.op = "confirm_reset", !.rtoken = token, !.pw = new_password]
        found == {r \in password_reset_tokens : r.token_hash = hash_token(token)}
    IN  IF found = {}
        THEN Done(t, AppException("Invalid or expired reset token"))
        ELSE LET stored_token == CHOOSE r \in found : TRUE
             IN  IF stored_token.used
                 THEN Done(t, AppException("Invalid or expired reset token"))
                 ELSE IF stored_token.expires_at < now
                 THEN Done(t, AppException("Invalid or expired reset token"))
                 ELSE IF stored_token.user_id \notin DOMAIN users
                 THEN Done(t, NotFoundException("User not found"))
                 ELSE ConfirmSetPassword(p, [t EXCEPT !.user = stored_token.user_id])

ConfirmBegin(p) ==
    /\ CanStart(p)
    /\ \E token \in 0 .. nonce, new_password \in Passwords :
         Started(p, confirm_reset(p, token, new_password))
    /\ UNCHANGED <<now, janitor, nonce, hist>>

\* The row lock the request waited for is free.
ConfirmResume(p) ==
    /\ \/ /\ Running(p, "confirm_reset", "setpw")
          /\ ~UserLockedByOther(p, tx[p].user)
          /\ Step(p, ConfirmSetPassword(p, tx[p]))
       \/ /\ Running(p, "confirm_reset", "mark")
          /\ ~ResetLockedByOther(p, hash_token(tx[p].rtoken))
          /\ Step(p, ConfirmMarkUsed(p, tx[p]))
       \/ /\ Running(p, "confirm_reset", "revoke")
          /\ \A h \in tx[p].snap : ~RefreshLockedByOther(p, h)
          /\ Step(p, ConfirmRevokeAll(p, tx[p]))
    /\ UNCHANGED <<now, janitor, nonce, calls, budget, hist>>

\* ------------------------------------------------------------ get_current_user
\* A decoding that verifies signature and expiry and does not look at the type.
decode_any_token(token) ==
    IF ~jwt_decode_ok(token, now)
    THEN UnauthorizedException("Could not validate credentials.")
    ELSE NoResponse

\* A decoder that also asks the ledger for a live session of the subject.
decode_session_bound(token) ==
    IF ~jwt_decode_ok(token, now)
    THEN UnauthorizedException("Could not validate credentials.")
    ELSE IF token.type # "access" THEN UnauthorizedException("Invalid token type.")
    ELSE IF ~\E r \in refresh_tokens : r.user_id = token.sub /\ ~r.revoked
    THEN UnauthorizedException("Could not validate credentials.")
    ELSE NoResponse

\* security.decode_access_token: the rejection it raises, NoResponse when the
\* token is accepted.  jwt.decode comes first, the type test second.
decode_access_token(token) ==
    IF ~jwt_decode_ok(token, now)
    THEN UnauthorizedException("Could not validate credentials.")
    ELSE IF token.type # "access" THEN UnauthorizedException("Invalid token type.")
    ELSE NoResponse

\* A lookup that compares the id column with a value no row's id equals.
get_by_id_never(id) == {u \in DOMAIN users : FALSE}

\* UserRepository.get_by_id: the row with that primary key.
get_by_id(id) == {u \in DOMAIN users : u = id}

get_by_username(username) == {u \in DOMAIN users : users[u].username = username}

\* deps.get_current_user behind OAuth2PasswordBearer, which answers a request
\* without a bearer token itself: the rejection, NoResponse when the token's
\* subject is the current user.
get_current_user(token) ==
    IF token = NoTok THEN NotAuthenticated
    ELSE IF decode_access_token(token) # NoResponse THEN decode_access_token(token)
    ELSE IF get_by_id(token.sub) = {} THEN UnauthorizedException("Unauthorized User")
    ELSE NoResponse

\* GET /users/me (api/v1/users.py, details): the current user's profile.
details(p, token) ==
    LET t == [Idle EXCEPT !.op = "me", !.token = token]
    IN  IF get_current_user(token) # NoResponse THEN Done(t, get_current_user(token))
        ELSE Done([t EXCEPT !.user = token.sub], UserResponse(token.sub, users[token.sub]))

MeBegin(p) ==
    /\ CanStart(p)
    /\ \E token \in AccessInputs : Started(p, details(p, token))
    /\ UNCHANGED <<now, janitor, nonce, hist>>

\* ----------------------------------------------------------------- UserService
\* The unique indexes on users.email and users.username: the statement waits
\* while another session has flushed, and not committed, a row with the same
\* email or username, or the change or removal of the committed row that holds
\* one of them; it fails when a committed row of another user holds one.
UserKeyWaits(p, id, email, username) ==
    \E q \in Procs \ {p} :
        \/ \E r \in tx[q].uins \cup tx[q].uupd : r.email = email \/ r.username = username
        \/ \E u \in DOMAIN users \ {id} :
              /\ users[u].email = email \/ users[u].username = username
              /\ u \in tx[q].udel \/ \E r \in tx[q].uupd : r.id = u

UserKeyConflicts(id, email, username) ==
    \E u \in DOMAIN users \ {id} : users[u].email = email \/ users[u].username = username

\* user_repo.create on a table without the unique indexes.
CreateInsertNoIndex(p, t) ==
    [t EXCEPT !.pc = "commit",
              !.uins = {[id |-> t.user, email |-> t.ident, username |-> t.uname,
                         password_hash |-> get_password_hash(t.pw)]}]

\* user_repo.create (create_user, lines 30-33): flush the INSERT; the
\* IntegrityError of a unique index becomes a ConflictException.
CreateInsert(p, t) ==
    IF UserKeyWaits(p, t.user, t.ident, t.uname) THEN [t EXCEPT !.pc = "uinsert"]
    ELSE IF UserKeyConflicts(t.user, t.ident, t.uname)
    THEN Done(t, ConflictException("Email or Username already taken (Race Condition detected)"))
    ELSE [t EXCEPT !.pc = "commit",
                   !.uins = {[id |-> t.user, email |-> t.ident, username |-> t.uname,
                              password_hash |-> get_password_hash(t.pw)]}]

\* UserService.create_user, lines 17-28: the two lookups, then the row is
\* built from the fields of UserCreate and the hash of the password; uuid4
\* gives it an id no other row has had.
create_user(p, email, username, password) ==
    LET t == [Idle EXCEPT !.op = "create_user", !.ident = email, !.uname = username,
                          !.pw = password]
    IN  IF get_by_email(email) # {}
        THEN Done(t, ConflictException("Email already registered"))
        ELSE IF get_by_username(username) # {}
        THEN Done(t, ConflictException("Username already taken"))
        ELSE CreateInsert(p, [t EXCEPT !.user = uuid4])

RegisterBegin(p) ==
    /\ CanStart(p)
    /\ \E email \in RegEmails, username \in RegUsernames :
         Started(p, create_user(p, email, username, "StrongPass1"))
    /\ UNCHANGED <<now, janitor, nonce, hist>>

RegisterResume(p) ==
    /\ Running(p, "create_user", "uinsert")
    /\ ~UserKeyWaits(p, tx[p].user, tx[p].ident, tx[p].uname)
    /\ Step(p, CreateInsert(p, tx[p]))
    /\ UNCHANGED <<now, janitor, nonce, calls, budget, hist>>

\* user_repo.update (update_user, lines 53-56): flush the UPDATE of the columns
\* that were set ("" stands for a column left alone).  The UPDATE changes
\* unique columns, so it waits for every other lock on the row; it fails with
\* StaleDataError when the row is gone.
UpdateFlush(p, t) ==
    LET email == IF t.ident = "" /\ ~ParentGone(t.user) THEN users[t.user].email ELSE t.ident
        username == IF t.uname = "" /\ ~ParentGone(t.user)
                    THEN users[t.user].username ELSE t.uname
    IN  IF \/ UserLockedByOther(p, t.user) \/ ChildInsertedByOther(p, t.user)
           \/ UserKeyWaits(p, t.user, email, username)
        THEN [t EXCEPT !.pc = "uupdate"]
        ELSE IF ParentGone(t.user) THEN Done(t, ServerError)
        ELSE IF UserKeyConflicts(t.user, email, username)
        THEN Done(t, ConflictException("Email or Username already taken (Race Condition detected)"))
        ELSE [t EXCEPT !.pc = "commit",
                       !.uupd = {[id |-> t.user, email |-> email, username |-> username]}]

\* An update_user that looks every submitted email and username up, also the
\* ones the user has already.
update_user_strict(p, token, email, username) ==
    LET t == [Idle EXCEPT !.op = "update_user", !.token = token, !.ident = email,
                          !.uname = username]
    IN  IF get_current_user(token) # NoResponse THEN Done(t, get_current_user(token))
        ELSE LET user == users[token.sub]
                 t1 == [t EXCEPT !.user = token.sub,
                                 !.ident = IF email = user.email THEN "" ELSE email,
                                 !.uname = IF username = user.username THEN "" ELSE username]
             IN  IF email # "" /\ get_by_email(email) # {}
                 THEN Done(t1, ConflictException("Email already registered"))
                 ELSE IF username # "" /\ get_by_username(username) # {}
                 THEN Done(t1, ConflictException("Username already taken"))
                 ELSE IF t1.ident = "" /\ t1.uname = ""
                 THEN Done(t1, UserResponse(token.sub, user))
                 ELSE UpdateFlush(p, t1)

\* PATCH /users/me: get_current_user, then UserService.update_user, lines
\* 39-51: a changed email or username that another row holds is refused; only
\* the fields of UserUpdate are set.  With nothing changed the flush sends no
\* statement and the row read is the response.
update_user(p, token, email, username) ==
    LET t == [Idle EXCEPT !.op = "update_user", !.token = token, !.ident = email,
                          !.uname = username]
    IN  IF get_current_user(token) # NoResponse THEN Done(t, get_current_user(token))
        ELSE LET user == users[token.sub]
                 t1 == [t EXCEPT !.user = token.sub,
                                 !.ident = IF email = user.email THEN "" ELSE email,
                                 !.uname = IF username = user.username THEN "" ELSE username]
             IN  IF t1.ident # "" /\ get_by_email(email) # {}
                 THEN Done(t1, ConflictException("Email already registered"))
                 ELSE IF t1.uname # "" /\ get_by_username(username) # {}
                 THEN Done(t1, ConflictException("Username already taken"))
                 ELSE IF t1.ident = "" /\ t1.uname = ""
                 THEN Done(t1, UserResponse(token.sub, user))
                 ELSE UpdateFlush(p, t1)

UpdateBegin(p) ==
    /\ CanStart(p)
    /\ \E token \in BearerInputs, email \in RegEmails \cup {""},
          username \in RegUsernames \cup {""} :
         Started(p, update_user(p, token, email, username))
    /\ UNCHANGED <<now, janitor, nonce, hist>>

UpdateResume(p) ==
    /\ Running(p, "update_user", "uupdate")
    /\ ~UserLockedByOther(p, tx[p].user) /\ ~ChildInsertedByOther(p, tx[p].user)
    /\ ~UserKeyWaits(p, tx[p].user,
                     IF tx[p].ident = "" /\ ~ParentGone(tx[p].user)
                     THEN users[tx[p].user].email ELSE tx[p].ident,
                     IF tx[p].uname = "" /\ ~ParentGone(tx[p].user)
                     THEN users[tx[p].user].username ELSE tx[p].uname)
    /\ Step(p, UpdateFlush(p, tx[p]))
    /\ UNCHANGED <<now, janitor, nonce, calls, budget, hist>>

\* The delete of the user's row alone, on tables without the relationship
\* cascade and without the foreign keys.
DeleteFlushNoCascade(p, t) ==
    IF UserLockedByOther(p, t.user)
    THEN [t EXCEPT !.pc = "udelete"]
    ELSE [t EXCEPT !.pc = "commit", !.udel = {t.user}, !.snap = {}, !.rsnap = {}]

\* user_repo.delete (lines 20-22): the flush deletes the token rows the cascade
\* of User.tokens and User.password_reset_tokens has loaded, then the user's
\* row.  The statements wait for the rows' locks; the DELETE of the user fails
\* on the foreign key when a token row of the user is left that the cascade
\* had not loaded.  A DELETE whose row is gone by then matches nothing and
\* locks nothing.
DeleteFlush(p, t) ==
    IF \/ \E h \in t.snap : RefreshLockedByOther(p, h)
       \/ \E h \in t.rsnap : ResetLockedByOther(p, h)
       \/ UserLockedByOther(p, t.user) \/ ChildInsertedByOther(p, t.user)
    THEN [t EXCEPT !.pc = "udelete"]
    ELSE IF \/ \E r \in refresh_tokens : r.user_id = t.user /\ r.token_hash \notin t.snap
            \/ \E r \in password_reset_tokens : r.user_id = t.user /\ r.token_hash \notin t.rsnap
    THEN Done(t, ServerError)
    ELSE LET found == {r.token_hash : r \in refresh_tokens} \cap t.snap
             rfound == {r.token_hash : r \in password_reset_tokens} \cap t.rsnap
         IN  [t EXCEPT !.pc = "commit", !.udel = {t.user}, !.del = found, !.lck = found,
                       !.rdel = rfound, !.snap = {}, !.rsnap = {}]

\* DELETE /users/me: get_current_user, then UserService.delete_user, lines
\* 60-62: session.delete loads the user's token rows and marks them, and the
\* user, deleted.
delete_user(p, token) ==
    LET t == [Idle EXCEPT !.op = "delete_user", !.token = token]
    IN  IF get_current_user(token) # NoResponse THEN Done(t, get_current_user(token))
        ELSE DeleteFlush(p, [t EXCEPT !.user = token.sub,
                                      !.snap = {r.token_hash : r \in
                                                  {x \in refresh_tokens : x.user_id = token.sub}},
                                      !.rsnap = {r.token_hash : r \in
                                                   {x \in password_reset_tokens :
                                                      x.user_id = token.sub}}])

DeleteBegin(p) ==
    /\ CanStart(p)
    /\ \E token \in BearerInputs : Started(p, delete_user(p, token))
    /\ UNCHANGED <<now, janitor, nonce, hist>>

DeleteResume(p) ==
    /\ Running(p, "delete_user", "udelete")
    /\ \A h \in tx[p].snap : ~RefreshLockedByOther(p, h)
    /\ \A h \in tx[p].rsnap : ~ResetLockedByOther(p, h)
    /\ ~UserLockedByOther(p, tx[p].user) /\ ~ChildInsertedByOther(p, tx[p].user)
    /\ Step(p, DeleteFlush(p, tx[p]))
    /\ UNCHANGED <<now, janitor, nonce, calls, budget, hist>>

\* ------------------------------------------------------------- get_db
\* Line 209: the handler returned, the session commits.
Commit(p) ==
    /\ tx[p].pc = "commit" /\ Delivered
    /\ refresh_tokens' = CommitRefresh(tx[p], refresh_tokens)
    /\ password_reset_tokens' = CommitReset(tx[p], password_reset_tokens)
    /\ users' = CommitUsers(tx[p], users)
    /\ tx' = [q \in Procs |->
                IF q = p THEN Done(tx[p], Success(tx[p]))
                ELSE IF tx[q].pc = "lookup" /\ hash_token(tx[q].token) \in tx[p].del
                THEN [tx[q] EXCEPT !.pc = "gone"]
                ELSE tx[q]]
    /\ rotated' = IF tx[p].op = "refresh" THEN rotated \cup {tx[p].token} ELSE rotated
    /\ loggedOut' = IF tx[p].op = "logout" THEN loggedOut \cup {tx[p].token} ELSE loggedOut
    /\ confirmed' = IF tx[p].op = "confirm_reset" THEN confirmed \cup {tx[p].rtoken} ELSE confirmed
    /\ UNCHANGED <<now, janitor, nonce, calls, budget>>

\* The caller goes away while the handler waits on the store: the task is
\* cancelled and the session closed without a commit.
Cancel(p) ==
    /\ tx[p].pc \notin {"idle", "done"} /\ Delivered
    /\ Step(p, Done(tx[p], Response(0, "cancelled")))
    /\ UNCHANGED <<now, janitor, nonce, calls, budget, hist>>

\* The response has gone out; the slot is free again.  The slots are
\* interchangeable, and the requests still running move down.
Return(p) ==
    /\ tx[p].pc = "done"
    /\ tx' = [q \in Procs |-> IF q < p THEN tx[q]
                               ELSE IF q + 1 \in Procs THEN tx[q + 1] ELSE Idle]
    /\ UNCHANGED <<now, tables, janitor, nonce, calls, budget, hist>>

\* --------------------------------------------------------------------- Janitor
\* An expiry test that lets a row live one second longer.
ExpiredLongAgo(r) == r.expires_at + 1 < now

\* A purge condition that also picks rows in their last second.
ExpiredOrDue(r) == r.expires_at < now + 2

Expired(r) == r.expires_at < now

\* periodic_cleanup's sleep returns (main.py, line 24) and
\* cleanup_expired_tokens runs, lines 13-20: the DELETE on refresh_tokens picks
\* its rows when it starts, waits for those another session has locked, and
\* the session commits.  A SELECT ... FOR UPDATE that still waits for one of
\* the deleted rows finds it gone: it reads the rows of its own snapshot, not
\* a row inserted later under the same key.
JanitorPurgeRefresh ==
    /\ janitor.pc \in {"sleep", "refresh"} /\ Delivered
    /\ LET targets == IF janitor.pc = "refresh" THEN janitor.snap
                      ELSE {r.token_hash : r \in {x \in refresh_tokens : Expired(x) \/ x.revoked}}
           blocked == \E h \in targets : \E q \in Procs : h \in tx[q].lck
       IN  /\ janitor.pc = "refresh" => ~blocked
           /\ IF blocked
              THEN /\ janitor' = [pc |-> "refresh", snap |-> targets]
                   /\ UNCHANGED refresh_tokens
                   /\ UNCHANGED tx
              ELSE /\ janitor' = [pc |-> "reset", snap |-> {}]
                   /\ refresh_tokens' = {r \in refresh_tokens : r.token_hash \notin targets}
                   /\ tx' = [q \in Procs |->
                               IF tx[q].pc = "lookup" /\ hash_token(tx[q].token) \in targets
                               THEN [tx[q] EXCEPT !.pc = "gone"] ELSE tx[q]]
    /\ UNCHANGED <<now, users, password_reset_tokens, nonce, calls, budget, hist>>

\* Lines 24-31: the same for password_reset_tokens, in a second transaction.
JanitorPurgeReset ==
    /\ janitor.pc \in {"reset", "reset_wait"} /\ Delivered
    /\ LET targets == IF janitor.pc = "reset_wait" THEN janitor.snap
                      ELSE {r.token_hash : r \in {x \in password_reset_tokens : Expired(x) \/ x.used}}
           blocked == \E h \in targets : \E q \in Procs : h \in tx[q].rused
       IN  /\ janitor.pc = "reset_wait" => ~blocked
           /\ IF blocked
              THEN /\ janitor' = [pc |-> "reset_wait", snap |-> targets]
                   /\ UNCHANGED password_reset_tokens
              ELSE /\ janitor' = [pc |-> "sleep", snap |-> {}]
                   /\ password_reset_tokens' =
                          {r \in password_reset_tokens : r.token_hash \notin targets}
    /\ UNCHANGED <<now, users, refresh_tokens, tx, nonce, calls, budget, hist>>

Tick ==
    /\ now < MaxTime /\ Delivered
    /\ now' = now + 1
    /\ UNCHANGED <<tables, tx, janitor, nonce, calls, budget, hist>>

Next ==
    \/ \E p \in Procs : LoginBegin(p)
    \/ \E p \in Procs : LoginResume(p)
    \/ \E p \in Procs : RefreshBegin(p)
    \/ \E p \in Procs : RefreshResume(p)
    \/ \E p \in Procs : LogoutBegin(p)
    \/ \E p \in Procs : LogoutResume(p)
    \/ \E p \in Procs : RequestBegin(p)
    \/ \E p \in Procs : RequestResume(p)
    \/ \E p \in Procs : ConfirmBegin(p)
    \/ \E p \in Procs : ConfirmResume(p)
    \/ \E p \in Procs : Commit(p)
    \/ \E p \in Procs : Cancel(p)
    \/ \E p \in Procs : Return(p)
    \/ JanitorPurgeRefresh
    \/ JanitorPurgeReset
    \/ Tick

Spec == Init /\ [][Next]_vars

\* The calls of one client, one after the other (the test client of
\* tests/test_auth.py): a request is answered before the next one is sent.
\* The janitor and the clock run as before.
NextSeq ==
    \/ LoginBegin(1)
    \/ RefreshBegin(1)
    \/ LogoutBegin(1)
    \/ RequestBegin(1)
    \/ ConfirmBegin(1)
    \/ Commit(1)
    \/ Cancel(1)
    \/ Return(1)
    \/ JanitorPurgeRefresh
    \/ JanitorPurgeReset
    \/ Tick

InitSeq ==
    /\ now = 0
    /\ users = [u \in Users |-> UserRow(Email[u], Username[u],
                                         get_password_hash("StrongPass1"))]
    /\ refresh_tokens = {}
    /\ password_reset_tokens = {}
    /\ tx = [p \in Procs |-> Idle]
    /\ janitor = [pc |-> "sleep", snap |-> {}]
    /\ nonce = 0
    /\ calls = 0
    /\ budget = MaxSeqCalls
    /\ rotated = {}
    /\ loggedOut = {}
    /\ confirmed = {}

SpecSeq == InitSeq /\ [][NextSeq]_vars

\* ------------------------------------------------------------- periodic_cleanup
\* main.py, lines 22-26: the task that lifespan creates once.  Its loop sleeps
\* and calls cleanup_expired_tokens, with no handler around the call.

\* Line 25: cleanup_expired_tokens raises (a statement or a commit fails, the
\* store cannot be reached).  The session is closed, what was committed stays,
\* and the exception leaves periodic_cleanup: the task has ended.
JanitorFail ==
    /\ janitor.pc \in {"sleep", "refresh", "reset", "reset_wait"} /\ Delivered
    /\ janitor' = [pc |-> "ended", snap |-> {}]
    /\ UNCHANGED <<now, tables, tx, nonce, calls, budget, hist>>

\* The host with its periodic task and one client.  The event loop runs every
\* task that is ready: a janitor step that is ready again and again is taken,
\* and a handler's commit and return are not put off for ever.
NextJanitor ==
    \/ LoginBegin(1)
    \/ LogoutBegin(1)
    \/ RequestBegin(1)
    \/ Commit(1)
    \/ Return(1)
    \/ JanitorPurgeRefresh
    \/ JanitorPurgeReset
    \/ JanitorFail
    \/ Tick

SpecJanitor ==
    /\ Init /\ [][NextJanitor]_vars
    /\ SF_vars(JanitorPurgeRefresh) /\ SF_vars(JanitorPurgeReset)
    /\ WF_vars(Commit(1)) /\ WF_vars(Return(1))

\* ------------------------------------------------------------ user management
\* The requests of api/v1/users.py next to those of api/v1/auth.py, on the
\* same store, without the cleanup task and within one second of the clock:
\* none of these requests depends on the time beyond the expiry of the tokens
\* presented, which Spec and SpecSeq cover.
NextUsers ==
    \/ \E p \in Procs : RegisterBegin(p)
    \/ \E p \in Procs : RegisterResume(p)
    \/ \E p \in Procs : MeBegin(p)
    \/ \E p \in Procs : UpdateBegin(p)
    \/ \E p \in Procs : UpdateResume(p)
    \/ \E p \in Procs : DeleteBegin(p)
    \/ \E p \in Procs : DeleteResume(p)
    \/ \E p \in Procs : LoginBegin(p)
    \/ \E p \in Procs : LoginResume(p)
    \/ \E p \in Procs : RefreshBegin(p)
    \/ \E p \in Procs : RefreshResume(p)
    \/ \E p \in Procs : LogoutBegin(p)
    \/ \E p \in Procs : LogoutResume(p)
    \/ \E p \in Procs : RequestBegin(p)
    \/ \E p \in Procs : RequestResume(p)
    \/ \E p \in Procs : ConfirmBegin(p)
    \/ \E p \in Procs : ConfirmResume(p)
    \/ \E p \in Procs : Commit(p)
    \/ \E p \in Procs : Cancel(p)
    \/ \E p \in Procs : Return(p)

\* The users table holds the account of the tests, registered either under the
\* current schema or before the migration that added the role column.
InitUsers ==
    /\ now = 0
    /\ \/ users = [u \in Users |-> UserRow(Email[u], Username[u],
                                            get_password_hash("StrongPass1"))]
       \/ users = [u \in Users |-> upgrade(UserRow(Email[u], Username[u],
                                                    get_password_hash("StrongPass1")))]
    /\ refresh_tokens = {}
    /\ password_reset_tokens = {}
    /\ tx = [p \in Procs |-> Idle]
    /\ janitor = [pc |-> "sleep", snap |-> {}]
    /\ nonce = 0
    /\ calls = 0
    /\ budget = MaxUserCalls
    /\ rotated = {}
    /\ loggedOut = {}
    /\ confirmed = {}

SpecUsers == InitUsers /\ [][NextUsers]_vars

\* ------------------------------------------------------------- audit metadata
\* The routes of api/v1/auth.py hand the client's address and user agent to
\* login, refresh_access_token and request_reset (lines 22-61); the migration
\* b2c3d4e5f6g7 gives both token tables the columns ip_address and user_agent.
\* "none" stands for None: no client address, no User-Agent header.
Metadata == {NoMetadata, [ip_address |-> "10.0.0.1", user_agent |-> "curl"]}

\* A token row with the two audit columns filled from the request.
AuditedRefreshRow(r, meta) ==
    [token_hash |-> r.token_hash, user_id |-> r.user_id, expires_at |-> r.expires_at,
     revoked |-> r.revoked, ip_address |-> meta.ip_address, user_agent |-> meta.user_agent]

AuditedResetRow(r, meta) ==
    [token_hash |-> r.token_hash, user_id |-> r.user_id, expires_at |-> r.expires_at,
     used |-> r.used, ip_address |-> meta.ip_address, user_agent |-> meta.user_agent]

\* The rows a request inserts carry the metadata the request was called with.
Audit(t, meta) ==
    IF t.pc = "done" THEN t
    ELSE [t EXCEPT !.meta = meta,
                   !.ins = {AuditedRefreshRow(r, meta) : r \in t.ins},
                   !.rins = {AuditedResetRow(r, meta) : r \in t.rins}]

\* login(identifier, password, ip_address=..., user_agent=...)
login_audited(p, identifier, password, meta) ==
    Audit(login(p, identifier, password), meta)

\* A refresh that accepts a token only from the address its row was issued to.
refresh_ip_bound(p, refresh_token, meta) ==
    IF \E r \in refresh_tokens : /\ r.token_hash = hash_token(refresh_token)
                                 /\ r.ip_address # meta.ip_address
    THEN Done([Idle EXCEPT !.op = "refresh", !.token = refresh_token],
              UnauthorizedException("Refresh token not found"))
    ELSE Audit(refresh_access_token(p, refresh_token), meta)

\* refresh_access_token(refresh_token, ip_address=..., user_agent=...)
refresh_audited(p, refresh_token, meta) ==
    Audit(refresh_access_token(p, refresh_token), meta)

\* request_reset(email, ip_address=..., user_agent=...)
request_reset_audited(p, email, meta) ==
    Audit(request_reset(p, email), meta)

LoginAudited(p) ==
    /\ CanStart(p)
    /\ \E identifier \in Identifiers, password \in Passwords, meta \in Metadata :
         Started(p, login_audited(p, identifier, password, meta))
    /\ UNCHANGED <<now, janitor, nonce, hist>>

LoginAuditedResume(p) ==
    /\ Running(p, "login", "insert")
    /\ ~InsertWaits(p, hash_token(tx[p].newtok))
    /\ ~ParentLockedByOther(p, tx[p].user)
    /\ Step(p, Audit(LoginInsert(p, tx[p]), tx[p].meta))
    /\ UNCHANGED <<now, janitor, nonce, calls, budget, hist>>

RefreshAudited(p) ==
    /\ CanStart(p)
    /\ \E refresh_token \in RefreshInputs, meta \in Metadata :
         Started(p, refresh_audited(p, refresh_token, meta))
    /\ UNCHANGED <<now, janitor, nonce, hist>>

RefreshAuditedResume(p) ==
    /\ \/ /\ Running(p, "refresh", "lookup")
          /\ ~RefreshLockedByOther(p, hash_token(tx[p].token))
          /\ Step(p, Audit(RefreshLookup(p, tx[p]), tx[p].meta))
       \/ /\ Running(p, "refresh", "rotate")
          /\ ~InsertWaits(p, hash_token(tx[p].newtok))
          /\ ~ParentLockedByOther(p, tx[p].user)
          /\ Step(p, Audit(RefreshRotate(p, tx[p]), tx[p].meta))
       \/ /\ Running(p, "refresh", "gone")
          /\ Step(p, Done(tx[p], UnauthorizedException("Refresh token not found")))
    /\ UNCHANGED <<now, janitor, nonce, calls, budget, hist>>

RequestAudited(p) ==
    /\ CanStart(p)
    /\ nonce < MaxResetTokens
    /\ \E email \in Emails, meta \in Metadata :
         /\ Started(p, request_reset_audited(p, email, meta))
         /\ nonce' = IF get_by_email(email) = {} THEN nonce ELSE nonce + 1
    /\ UNCHANGED <<now, janitor, hist>>

RequestAuditedResume(p) ==
    /\ Running(p, "request_reset", "revoke")
    /\ \A h \in tx[p].snap : ~ResetLockedByOther(p, h)
    /\ ~ParentLockedByOther(p, tx[p].user)
    /\ Step(p, Audit(RequestRevoke(p, tx[p]), tx[p].meta))
    /\ UNCHANGED <<now, janitor, nonce, calls, budget, hist>>

\* The clock, over a shorter time than Tick runs it.
TickAudited ==
    /\ now < MaxAuditedTime /\ Delivered
    /\ now' = now + 1
    /\ UNCHANGED <<tables, tx, janitor, nonce, calls, budget, hist>>

\* The three requests of api/v1/auth.py that the routes call with metadata,
\* and confirm_reset, which reads the rows request_reset stores.
NextAudited ==
    \/ \E p \in Procs : LoginAudited(p)
    \/ \E p \in Procs : LoginAuditedResume(p)
    \/ \E p \in Procs : RefreshAudited(p)
    \/ \E p \in Procs : RefreshAuditedResume(p)
    \/ \E p \in Procs : RequestAudited(p)
    \/ \E p \in Procs : RequestAuditedResume(p)
    \/ \E p \in Procs : ConfirmBegin(p)
    \/ \E p \in Procs : ConfirmResume(p)
    \/ \E p \in Procs : Commit(p)
    \/ \E p \in Procs : Cancel(p)
    \/ \E p \in Procs : Return(p)
    \/ TickAudited

SpecAudited == Init /\ [][NextAudited]_vars

\* ==================================================================== claims
\* A slot a new request can be put in.
Free(p) == tx[p].pc = "idle"

\* The request was answered 401, nothing of it left in its session.
Rejected401(r) == r.pc = "done" /\ r.result.status = 401

Revoked(h, rows) == {IF r.token_hash = h THEN [r EXCEPT !.revoked = TRUE] ELSE r : r \in rows}

\* C1 (as the spec states it): of the refresh calls that present one token, one
\* is answered with a new pair and every other one with Unauthorized; so every
\* refresh call that is answered at all is answered 200 or 401.
C1_RefreshAnswers200Or401 ==
    \A p \in Procs :
        tx[p].op = "refresh" /\ tx[p].pc = "done" /\ tx[p].result.status # 0
            => tx[p].result.status \in {200, 401}

\* C2: rotation is atomic.  A step of a refresh request changes the committed
\* tables only when it is the commit that answers 200, and then the old row
\* becomes revoked and the new row appears in that one step; a refresh that
\* is rejected, fails or is cancelled leaves the committed tables as they were.
\* (A step that removes the row a refresh waits for is the remover's step.)
C2_RotationAtomic ==
    [][\A p \in Procs :
          (tx'[p].op = "refresh" /\ tx[p].pc # "done" /\ tx'[p] # tx[p]
               /\ tx'[p].pc # "gone") =>
              /\ users' = users
              /\ password_reset_tokens' = password_reset_tokens
              /\ IF tx'[p].pc = "done" /\ tx'[p].result.status = 200
                 THEN LET old == hash_token(tx[p].token)
                          new == RefreshRow(hash_token(tx[p].newtok), tx[p].user,
                                            tx[p].newtok.exp)
                      IN  /\ \E r \in refresh_tokens : r.token_hash = old /\ ~r.revoked
                          /\ \A r \in refresh_tokens : r.token_hash # new.token_hash
                          /\ refresh_tokens' = Revoked(old, refresh_tokens) \cup {new}
                          /\ tx'[p].result.refresh = tx[p].newtok
                 ELSE refresh_tokens' = refresh_tokens]_vars

\* A refresh failed in the flush of its rotation (status 500) and the row of
\* the token it presented is still there, not revoked.
C2_Witness ==
    \E p \in Procs :
        /\ tx[p].op = "refresh" /\ tx[p].pc = "done" /\ tx[p].result.status = 500
        /\ \E r \in refresh_tokens : r.token_hash = hash_token(tx[p].token) /\ ~r.revoked

\* C3 (as the spec states it, weakened to what it must at least mean): once a
\* refresh of T has committed, no refresh call that presents T is accepted
\* again.
C3_RotatedTokenStaysDead ==
    \A T \in rotated : \A p \in Procs : Free(p) =>
        refresh_access_token(p, T).pc \notin {"rotate", "commit"}

\* C4: one client, one call after the other: when confirm_reset has been
\* answered 200 for user u, a refresh with any refresh token of u is answered
\* 401 (the token login returned before the reset is one of them).
C4_RefreshAfterResetRejected ==
    \A p \in Procs :
        (tx[p].op = "confirm_reset" /\ tx[p].pc = "done" /\ tx[p].result.status = 200) =>
            \A T \in RefreshInputs :
                T.sub = tx[p].user => Rejected401(refresh_access_token(p, T))

\* After a confirmed reset, with no refresh and no logout ever committed, a
\* refresh was answered "Token revoked": the token is one login returned and
\* the reset revoked.
C4_Witness ==
    /\ confirmed # {} /\ rotated = {} /\ loggedOut = {}
    /\ \E p \in Procs :
        /\ tx[p].op = "refresh" /\ tx[p].pc = "done"
        /\ tx[p].result = UnauthorizedException("Token revoked")

\* C5 (as the spec states it): when confirm_reset for u has committed, every
\* refresh row of u in the committed table is revoked.
C5_ConfirmRevokesEveryRow ==
    \A p \in Procs :
        (tx[p].op = "confirm_reset" /\ tx[p].pc = "done" /\ tx[p].result.status = 200) =>
            \A r \in refresh_tokens : r.user_id = tx[p].user => r.revoked

\* C6: a reset token that a committed confirm_reset has used is spent: a
\* confirm_reset sent now with it, whatever the new password, is answered 400
\* "Invalid or expired reset token" and has written nothing, the password
\* included.
C6_ResetTokenSingleUse ==
    \A T \in confirmed : \A p \in Procs : Free(p) =>
        \A new_password \in Passwords :
            LET r == confirm_reset(p, T, new_password)
            IN  /\ r.pc = "done"
                /\ r.result = AppException("Invalid or expired reset token")
                /\ CommitUsers(r, users) = users

\* A confirm_reset with a token an earlier confirm_reset used was answered 400,
\* and the password is not the one it asked for.
C6_Witness ==
    \E p \in Procs :
        /\ tx[p].op = "confirm_reset" /\ tx[p].pc = "done" /\ tx[p].rtoken \in confirmed
        /\ tx[p].result = AppException("Invalid or expired reset token")
        /\ \E u \in Users : ~verify_password(tx[p].pw, users[u].password_hash)
                            /\ ~verify_password("StrongPass1", users[u].password_hash)

\* C7 (as the spec states it): in every committed state a user has at most one
\* reset token that is neither used nor expired.
C7_OneLiveResetToken ==
    \A u \in Users :
        Cardinality({r \in password_reset_tokens :
                        r.user_id = u /\ ~r.used /\ ~Expired(r)}) <= 1

\* C8 (as the spec states it, weakened to what it must at least mean): once a
\* logout of T has committed, no refresh call that presents T is accepted.
C8_LoggedOutTokenStaysDead ==
    \A T \in loggedOut : \A p \in Procs : Free(p) =>
        refresh_access_token(p, T).pc \notin {"rotate", "commit"}

\* C9: logout goes on to its commit exactly when the committed row of the
\* presented token exists and is not revoked, and the commit sets that row,
\* and nothing else, to revoked; otherwise it is answered 401 "Invalid or
\* already revoked token" and writes nothing.
C9_LogoutDecision ==
    /\ \A T \in RefreshInputs : \A p \in Procs : Free(p) =>
           LET t == [Idle EXCEPT !.op = "logout", !.token = T]
               h == hash_token(T)
               r == logout(p, t)
           IN  r.pc # "lookup" =>
                   IF \E row \in refresh_tokens : row.token_hash = h /\ ~row.revoked
                   THEN /\ r.pc = "commit"
                        /\ CommitRefresh(r, refresh_tokens) = Revoked(h, refresh_tokens)
                        /\ CommitReset(r, password_reset_tokens) = password_reset_tokens
                        /\ CommitUsers(r, users) = users
                   ELSE /\ r = Done(t, UnauthorizedException("Invalid or already revoked token"))
                        /\ RollbackRefresh(r, refresh_tokens) = refresh_tokens
    /\ \A p \in Procs : tx[p].op = "logout" =>
           LET h == hash_token(tx[p].token)
           IN  CASE tx[p].pc = "commit" ->
                        /\ \E row \in refresh_tokens : row.token_hash = h /\ ~row.revoked
                        /\ tx[p].rev = {h} /\ tx[p].ins = {}
                 [] tx[p].pc = "done" /\ tx[p].result.status = 204 ->
                        \E row \in refresh_tokens : row.token_hash = h /\ row.revoked
                 [] tx[p].pc = "done" /\ tx[p].result.status # 204 ->
                        tx[p].result \in {UnauthorizedException("Invalid or already revoked token"),
                                          Response(0, "cancelled")}
                 [] OTHER -> tx[p].pc \in {"lookup", "gone"}

\* A second logout with a token a committed logout had revoked was answered 401,
\* the row still there and revoked.
C9_Witness ==
    \E p \in Procs :
        /\ tx[p].op = "logout" /\ tx[p].pc = "done" /\ tx[p].token \in loggedOut
        /\ tx[p].result = UnauthorizedException("Invalid or already revoked token")
        /\ \E row \in refresh_tokens : row.token_hash = hash_token(tx[p].token) /\ row.revoked

\* C10: a login with an unknown identifier and a login with a wrong password
\* get the same answer, 401 "Incorrect email/username or password", and write
\* nothing.
C10_LoginFailureUniform ==
    \A p \in Procs : Free(p) =>
        \A identifier \in Identifiers, password \in Passwords :
            LET found == get_by_email_or_username(identifier)
                r == login(p, identifier, password)
            IN  (\/ found = {}
                 \/ \E u \in found : ~verify_password(password, users[u].password_hash)) =>
                    /\ r.pc = "done"
                    /\ r.result = UnauthorizedException("Incorrect email/username or password")
                    /\ r.ins = {}
                    /\ RollbackRefresh(r, refresh_tokens) = refresh_tokens

\* A login of an existing user with a wrong password was answered 401.
C10_Witness ==
    \E p \in Procs :
        /\ tx[p].op = "login" /\ tx[p].pc = "done" /\ tx[p].user \in Users
        /\ tx[p].result = UnauthorizedException("Incorrect email/username or password")

C12_ConfirmRejectionsUniform ==
    LET opaque == AppException("Invalid or expired reset token")
    IN  /\ \A p \in Procs : Free(p) =>
               \A token \in 0 .. nonce, new_password \in Passwords :
                   LET found == {x \in password_reset_tokens :
                                   x.token_hash = hash_token(token)}
                       r == confirm_reset(p, token, new_password)
                   IN  (found = {} \/ \E x \in found : x.used \/ x.expires_at < now)
                           => (r.pc = "done" /\ r.result = opaque)
        /\ \A p \in Procs :
               (tx[p].op = "confirm_reset" /\ tx[p].pc = "done" /\ tx[p].result.status = 400)
                   => tx[p].result = opaque

\* A confirm_reset with an expired, unused token has been answered 400 while
\* the ledger also holds a used row.
C12_Witness ==
    /\ \E x \in password_reset_tokens : x.used
    /\ \E p \in Procs :
        /\ tx[p].op = "confirm_reset" /\ tx[p].pc = "done" /\ tx[p].result.status = 400
        /\ \E x \in password_reset_tokens :
            /\ x.token_hash = hash_token(tx[p].rtoken)
            /\ ~x.used /\ x.expires_at < now

\* C13: every successful login returns an access and a refresh token that are
\* distinct strings, both with the matched user as subject, with token type
\* "bearer", and its commit adds exactly one refresh row: non-revoked, owned by
\* that user, keyed by the hash of the returned refresh token; no other row
\* changes.
C13_LoginIssuesPair ==
    \A p \in Procs :
        LET t == tx[p]
            resp == IF t.pc = "commit" THEN Success(t) ELSE t.result
            after == IF t.pc = "commit" THEN CommitRefresh(t, refresh_tokens)
                     ELSE refresh_tokens
            keyed == {x \in after : x.token_hash = hash_token(resp.refresh)}
        IN  (t.op = "login" /\ (t.pc = "commit" \/ (t.pc = "done" /\ t.result.status = 200)))
                => /\ resp.status = 200 /\ resp.detail = "bearer"
                   /\ resp.access # resp.refresh
                   /\ resp.access.type = "access" /\ resp.refresh.type = "refresh"
                   /\ get_by_email_or_username(t.ident) = {resp.access.sub}
                   /\ resp.refresh.sub = resp.access.sub
                   /\ Cardinality(keyed) = 1
                   /\ \A row \in keyed : row.user_id = resp.refresh.sub /\ ~row.revoked
                   /\ t.pc = "commit" =>
                          /\ refresh_tokens \subseteq after
                          /\ after \ refresh_tokens = keyed

\* A login has been answered 200 while the ledger holds rows of other logins.
C13_Witness ==
    /\ Cardinality(refresh_tokens) >= 2
    /\ \E p \in Procs : tx[p].op = "login" /\ tx[p].pc = "done" /\ tx[p].result.status = 200

\* C14: once a confirm_reset with a new password has been answered 200, a
\* login of that user (by email or by username) with any other password, so
\* also with the previous one, is rejected with 401, and a login with the new
\* password is not rejected.
C14_PasswordReplaced ==
    \A p \in Procs :
        (tx[p].op = "confirm_reset" /\ tx[p].pc = "done" /\ tx[p].result.status = 200)
            => \A q \in Procs \ {p} : Free(q) =>
                   \A identifier \in {Email[tx[p].user], Username[tx[p].user]} :
                       /\ \A previous \in Passwords \ {tx[p].pw} :
                              Rejected401(login(q, identifier, previous))
                       /\ LET r == login(q, identifier, tx[p].pw)
                          IN  r.pc = "done" => r.result.status = 200

\* C15: a refresh with a signed refresh-type token whose row is absent, revoked
\* or expired is rejected with 401 as soon as it gets to read the row (sent now,
\* or waiting for the row lock that is now free), and it has flushed nothing:
\* no row is inserted, revoked or locked, and the tables stay as they are.
C15_RefreshRejectsDeadRow ==
    \A p \in Procs :
        \A refresh_token \in {x \in RefreshInputs : x.type = "refresh"} :
            LET h == hash_token(refresh_token)
                found == {x \in refresh_tokens : x.token_hash = h}
                dead == found = {} \/ \E x \in found : x.revoked \/ x.expires_at < now
                waiting == tx[p].op = "refresh" /\ tx[p].pc = "lookup"
                               /\ tx[p].token = refresh_token
                r == IF waiting THEN RefreshLookup(p, tx[p])
                     ELSE refresh_access_token(p, refresh_token)
            IN  ((Free(p) \/ waiting) /\ dead /\ ~RefreshLockedByOther(p, h))
                    => /\ Rejected401(r)
                       /\ r.ins = {} /\ r.rev = {} /\ r.lck = {}
                       /\ RollbackRefresh(tx[p], refresh_tokens) = refresh_tokens
                       /\ RollbackReset(tx[p], password_reset_tokens) = password_reset_tokens

\* A refresh has been answered 401 for a revoked row that is still stored,
\* and the ledger holds another row that is live.
C15_Witness ==
    /\ \E x \in refresh_tokens : ~x.revoked
    /\ \E p \in Procs :
        /\ tx[p].op = "refresh" /\ tx[p].pc = "done"
        /\ tx[p].result = UnauthorizedException("Token revoked")
        /\ \E x \in refresh_tokens : x.token_hash = hash_token(tx[p].token) /\ x.revoked

\* C16: a token whose expires_at equals now is expired for every check: a
\* refresh sent now with a refresh token whose row expires now is rejected with
\* 401, a confirm_reset sent now with a reset token whose row expires now is
\* rejected with 400, and the purge's DELETE picks every row whose expires_at
\* is not later than now.
C16_ExpiredAtBoundary ==
    /\ \A p \in Procs : Free(p) =>
           \A x \in refresh_tokens :
               (x.expires_at = now /\ ~RefreshLockedByOther(p, x.token_hash))
                   => Rejected401(refresh_access_token(p, create_refresh_token(x.user_id,
                                      x.expires_at - REFRESH_TOKEN_EXPIRE)))
    /\ \A p \in Procs : Free(p) =>
           \A token \in 1 .. nonce, new_password \in Passwords :
               (\E x \in password_reset_tokens :
                    x.token_hash = hash_token(token) /\ x.expires_at = now)
                   => LET r == confirm_reset(p, token, new_password)
                      IN  r.pc = "done" /\ r.result.status = 400
    /\ \A x \in refresh_tokens : x.expires_at <= now => Expired(x)
    /\ \A x \in password_reset_tokens : x.expires_at <= now => Expired(x)

\* C17: no resurrection.  The hash of a token that has been revoked, by a
\* committed rotation or a committed logout, never again belongs to a
\* non-revoked row, whatever login, refresh, logout, reset and purge did since.
C17_NoResurrection ==
    \A T \in rotated \cup loggedOut :
        \A r \in refresh_tokens : r.token_hash = hash_token(T) => r.revoked

\* C18: a login session's chain never holds two live rows.  A chain starts as
\* the one row a login's commit adds; every step that puts a live row into the
\* ledger is such a login commit, or the commit of a refresh of a token whose
\* row is live before the step and revoked after it, adding the successor in
\* that same step; no other step adds a live row or makes a revoked row live.
C18_ChainKeepsOneLive ==
    [][\A new \in refresh_tokens' \ refresh_tokens :
          ~new.revoked =>
              \E p \in Procs :
                  /\ tx[p].pc = "commit" /\ tx'[p].pc = "done" /\ tx'[p].result.status = 200
                  /\ tx[p].ins = {new}
                  /\ \A r \in refresh_tokens : r.token_hash # new.token_hash
                  /\ \/ tx[p].op = "login" /\ tx[p].rev = {}
                     \/ /\ tx[p].op = "refresh"
                        /\ \E old \in refresh_tokens :
                              /\ old.token_hash = hash_token(tx[p].token)
                              /\ ~old.revoked
                              /\ [old EXCEPT !.revoked = TRUE] \in refresh_tokens'
                              /\ old \notin refresh_tokens']_vars

\* A refresh has been answered 200: the row of the token it presented is
\* stored revoked, its successor is live, and another chain has a live row.
C18_Witness ==
    \E p \in Procs :
        /\ tx[p].op = "refresh" /\ tx[p].pc = "done" /\ tx[p].result.status = 200
        /\ \E old \in refresh_tokens :
              old.token_hash = hash_token(tx[p].token) /\ old.revoked
        /\ \E new \in refresh_tokens :
              new.token_hash = hash_token(tx[p].result.refresh) /\ ~new.revoked
        /\ Cardinality({r \in refresh_tokens : ~r.revoked}) >= 2

\* C19 (as the spec states it): in the step that completes a purge run the
\* ledger is left with no refresh row that is revoked or has expires_at in the
\* past and with no reset row that is used or has expires_at in the past.
C19_PurgeLeavesNoDeadRow ==
    [][(janitor.pc \in {"reset", "reset_wait"} /\ janitor'.pc = "sleep") =>
          /\ \A x \in refresh_tokens' : ~x.revoked /\ ~(x.expires_at < now')
          /\ \A x \in password_reset_tokens' : ~x.used /\ ~(x.expires_at < now')]_vars

\* C19 (amended): each DELETE of a purge run removes what it picked when it
\* started.  In the step that commits the DELETE on refresh_tokens, every row
\* that was revoked or had expires_at in the past when the statement started
\* is gone, a lookup by its hash finds nothing, and every other row stays; the
\* same for the DELETE on password_reset_tokens with used in place of revoked.
C19_PurgeDeletesWhatItPicked ==
    [][/\ (janitor.pc \in {"sleep", "refresh"} /\ janitor'.pc = "reset") =>
             LET picked == {x \in refresh_tokens :
                              IF janitor.pc = "sleep" THEN x.revoked \/ x.expires_at < now
                              ELSE x.token_hash \in janitor.snap}
             IN  /\ refresh_tokens' = refresh_tokens \ picked
                 /\ \A x \in picked : \A y \in refresh_tokens' : y.token_hash # x.token_hash
       /\ (janitor.pc = "sleep" /\ janitor'.pc = "refresh") =>
             /\ refresh_tokens' = refresh_tokens
             /\ janitor'.snap = {x.token_hash : x \in {y \in refresh_tokens :
                                                        y.revoked \/ y.expires_at < now}}
       /\ (janitor.pc \in {"reset", "reset_wait"} /\ janitor'.pc = "sleep") =>
             LET picked == {x \in password_reset_tokens :
                              IF janitor.pc = "reset" THEN x.used \/ x.expires_at < now
                              ELSE x.token_hash \in janitor.snap}
             IN  /\ password_reset_tokens' = password_reset_tokens \ picked
                 /\ \A x \in picked :
                        \A y \in password_reset_tokens' : y.token_hash # x.token_hash
       /\ (janitor.pc = "reset" /\ janitor'.pc = "reset_wait") =>
             /\ password_reset_tokens' = password_reset_tokens
             /\ janitor'.snap = {x.token_hash : x \in {y \in password_reset_tokens :
                                                        y.used \/ y.expires_at < now}}]_vars

\* A purge run has completed: the row of a rotated token is gone, and the row
\* of a token logged out after the DELETE on refresh_tokens is still stored.
C19_Witness ==
    /\ janitor.pc = "sleep"
    /\ \E T \in rotated : \A x \in refresh_tokens : x.token_hash # hash_token(T)
    /\ \E T \in loggedOut : \E x \in refresh_tokens : x.token_hash = hash_token(T) /\ x.revoked

\* C20: a purge run that raises is not fatal to the periodic task: whenever a
\* run has raised, the janitor later runs a purge again.
C20_JanitorSurvivesFailure ==
    (janitor.pc = "ended") ~> (janitor.pc \in {"refresh", "reset"})

C29_LogoutRefreshExclusive ==
    [][LET accepted(t) == \/ t.pc \in {"rotate", "commit"}
                          \/ (t.pc = "done" /\ t.result.status \in {200, 204})
           dead(rows, T) == \E r \in rows : r.token_hash = hash_token(T) /\ r.revoked
           live(rows, T) == \E r \in rows : r.token_hash = hash_token(T) /\ ~r.revoked
           waits(t, T) == t.op \in {"refresh", "logout"} /\ t.token = T /\ t.pc = "lookup"
           resumed(p) == IF tx[p].op = "refresh" THEN RefreshLookup(p, tx[p])
                         ELSE logout(p, tx[p])
          IN  /\ \A p, q \in Procs :
                   (tx[p].op = "refresh" /\ tx[q].op = "logout" /\ tx[p].token = tx[q].token)
                       => ~(accepted(tx[p]) /\ accepted(tx[q]))
              /\ \A q \in Procs :
                   (tx[q].op \in {"refresh", "logout"} /\ tx[q].pc = "commit"
                       /\ tx'[q].pc = "done" /\ tx'[q].result.status \in {200, 204})
                       => dead(refresh_tokens', tx[q].token)
              /\ \A p \in Procs :
                   (waits(tx[p], tx[p].token) /\ dead(refresh_tokens, tx[p].token))
                       => \/ dead(refresh_tokens', tx[p].token)
                          \/ \A q \in Procs : ~waits(tx'[q], tx[p].token)
              /\ \A p \in Procs :
                   (waits(tx[p], tx[p].token) /\ ~live(refresh_tokens, tx[p].token)
                       /\ ~RefreshLockedByOther(p, hash_token(tx[p].token)))
                       => /\ Rejected401(resumed(p))
                          /\ RollbackRefresh(resumed(p), refresh_tokens) = refresh_tokens
              /\ \A p \in Procs :
                   (tx[p].op \in {"refresh", "logout"} /\ tx[p].pc = "gone"
                       /\ tx'[p].op = tx[p].op /\ tx'[p].pc # "gone")
                       => tx'[p].pc = "done" /\ tx'[p].result.status \in {0, 401}
      ]_vars

\* The race has been decided for the logout: its commit has revoked T's row,
\* and the refresh that presented the same T still waits for the row, which
\* nobody locks any more.
C29_Witness ==
    \E p \in Procs :
        /\ tx[p].op = "refresh" /\ tx[p].pc = "lookup" /\ tx[p].token \in loggedOut
        /\ ~RefreshLockedByOther(p, hash_token(tx[p].token))
        /\ \E r \in refresh_tokens : r.token_hash = hash_token(tx[p].token) /\ r.revoked

\* C30 (as the claim states it): of two confirm_reset calls that present the
\* same live reset token at the same time at most one succeeds: a confirm_reset
\* that is still running when another confirm_reset has consumed its token is
\* not going to be answered 200: it does not reach its commit, does not set
\* the password and does not mark the token used a second time.
C30_ConfirmResetExclusive ==
    \A p \in Procs :
        (tx[p].op = "confirm_reset" /\ tx[p].rtoken \in confirmed /\ tx[p].pc # "done")
            => /\ tx[p].pc # "commit"
               /\ ~tx[p].pwset
               /\ tx[p].rused = {}

FlushedUsers(q) == tx[q].uins \cup tx[q].uupd

RaceConflict == ConflictException("Email or Username already taken (Race Condition detected)")

\* C21: no two committed users share an email or a username, and no two
\* sessions have flushed rows that share one.  A registration, or a profile
\* update by a user, whose new email or username a committed row of another
\* user holds is answered 409 and flushes nothing; of two requests that
\* run together with the same email or username, the one that waited at the
\* unique index while the other committed is answered 409 when it goes on.
C21_UniqueEmailAndUsername ==
    /\ \A u, v \in DOMAIN users :
           u # v => users[u].email # users[v].email /\ users[u].username # users[v].username
    /\ \A p, q \in Procs : p # q =>
           \A r \in FlushedUsers(p), s \in FlushedUsers(q) :
               r.email # s.email /\ r.username # s.username
    /\ \A p \in Procs : Free(p) =>
           \A email \in RegEmails, username \in RegUsernames :
               UserKeyConflicts("none", email, username) =>
                   LET r == create_user(p, email, username, "StrongPass1")
                   IN  r.pc = "done" /\ r.result.status = 409 /\ r.uins = {}
    /\ \A p \in Procs : Free(p) =>
           \A u \in DOMAIN users, email \in RegEmails \cup {""},
              username \in RegUsernames \cup {""} :
               UserKeyConflicts(u, email, username) =>
                   LET r == update_user(p, Tok("access", u, now + ACCESS_TOKEN_EXPIRE),
                                        email, username)
                   IN  r.pc = "done" /\ r.result.status = 409 /\ r.uupd = {}
    /\ \A p \in Procs :
           /\ (tx[p].pc = "uinsert" /\ UserKeyConflicts(tx[p].user, tx[p].ident, tx[p].uname)
                                    /\ ~UserKeyWaits(p, tx[p].user, tx[p].ident, tx[p].uname))
                  => CreateInsert(p, tx[p]) = Done(tx[p], RaceConflict)
           /\ (tx[p].op = "create_user" /\ tx[p].pc = "done")
                  => tx[p].result.status \in {0, 200, 409}

\* Two registrations with one email ran together: the first is stored and
\* answered, the second still waits at the unique index.
C21_Witness ==
    \E p, q \in Procs :
        /\ tx[p].op = "create_user" /\ tx[p].pc = "done" /\ tx[p].result.status = 200
        /\ tx[p].user \in DOMAIN users /\ users[tx[p].user].email = tx[p].ident
        /\ tx[q].op = "create_user" /\ tx[q].pc = "uinsert" /\ tx[q].ident = tx[p].ident
        /\ tx[q].user \notin DOMAIN users

C28_RoleInEnum ==
    /\ \A u \in DOMAIN users : users[u].role \in UserRole
    /\ \A p \in Procs : tx[p].pc = "commit" =>
           /\ \A r \in tx[p].uins : CommitUsers(tx[p], users)[r.id].role = "user"
           /\ \A r \in tx[p].uupd : CommitUsers(tx[p], users)[r.id].role = users[r.id].role

\* A request record with the audit columns of its rows blanked.
Unaudited(t) == Audit(t, NoMetadata)

C31_FreshRefreshTokens ==
    /\ \A p \in Procs : Free(p) =>
           \A T \in RefreshInputs :
               LET h == hash_token(T)
                   r == refresh_access_token(p, T)
               IN  (/\ T # Garbage /\ T.type = "refresh"
                    /\ \E row \in refresh_tokens :
                           row.token_hash = h /\ ~row.revoked /\ ~Expired(row)
                    /\ ~RefreshLockedByOther(p, h)
                    /\ \A q \in Procs : tx[q].pc = "idle")
                       => /\ r.pc = "commit"
                          /\ r.newtok # T
                          /\ \A row \in refresh_tokens : row.token_hash # hash_token(r.newtok)
    /\ \A p \in Procs : Free(p) =>
           \A identifier \in Identifiers :
               LET r == login(p, identifier, "StrongPass1")
               IN  (r.newtok # NoTok /\ \A q \in Procs : tx[q].pc = "idle") =>
                       \A row \in refresh_tokens : row.token_hash # hash_token(r.newtok)

\* C32: a step of the purge leaves users alone, changes no row, and deletes
\* only refresh rows that are revoked or past their expiry and reset rows that
\* are used or past their expiry.  It disturbs no running request except that
\* a lookup waiting for a deleted row finds it gone, the rows a running
\* request has locked stay, and with every token that a refresh or a
\* confirm_reset would have gone on with before the step, refresh, logout and
\* confirm_reset get the same outcome after it (a confirm_reset then revokes
\* the refresh rows that are left).
C32_PurgeDeletesOnlyTerminalRows ==
    [][janitor' # janitor =>
          /\ users' = users
          /\ refresh_tokens' \subseteq refresh_tokens
          /\ password_reset_tokens' \subseteq password_reset_tokens
          /\ \A r \in refresh_tokens \ refresh_tokens' : r.revoked \/ r.expires_at < now
          /\ \A r \in password_reset_tokens \ password_reset_tokens' :
                 r.used \/ r.expires_at < now
          /\ \A p \in Procs :
                 \/ tx'[p] = tx[p]
                 \/ /\ tx[p].pc = "lookup" /\ tx'[p] = [tx[p] EXCEPT !.pc = "gone"]
                    /\ \E r \in refresh_tokens \ refresh_tokens' :
                           r.token_hash = hash_token(tx[p].token)
          /\ \A p \in Procs : \A r \in refresh_tokens :
                 r.token_hash \in tx[p].lck => r \in refresh_tokens'
          /\ \A p \in Procs : Free(p) =>
                 /\ \A T \in RefreshInputs :
                        refresh_access_token(p, T).pc # "done" =>
                            /\ refresh_access_token(p, T)' = refresh_access_token(p, T)
                            /\ logout(p, [Idle EXCEPT !.op = "logout", !.token = T])'
                                   = logout(p, [Idle EXCEPT !.op = "logout", !.token = T])
                 /\ \A n \in 1 .. nonce, new_password \in Passwords :
                        confirm_reset(p, n, new_password).pc # "done" =>
                            /\ confirm_reset(p, n, new_password).pc'
                                   = confirm_reset(p, n, new_password).pc
                            /\ confirm_reset(p, n, new_password).rused'
                                   = confirm_reset(p, n, new_password).rused
                            /\ confirm_reset(p, n, new_password).pwset'
                                   = confirm_reset(p, n, new_password).pwset
                            /\ confirm_reset(p, n, new_password).user'
                                   = confirm_reset(p, n, new_password).user]_vars

\* The purge has deleted the row of a rotated token while a refresh with a live
\* token was at its commit: that token's row is still stored, not revoked.
C32_Witness ==
    /\ janitor.pc = "reset"
    /\ \E T \in rotated : \A r \in refresh_tokens : r.token_hash # hash_token(T)
    /\ \E p \in Procs :
           /\ tx[p].op = "refresh" /\ tx[p].pc = "commit"
           /\ \E r \in refresh_tokens : r.token_hash = hash_token(tx[p].token) /\ ~r.revoked

\* C33: with the janitor's steps scheduled fairly, every refresh row that is
\* revoked or expired and every reset row that is used or expired is deleted
\* at some later time.
C33_DeadRowsEventuallyDeleted ==
    /\ \A u \in Users : \A e \in 0 .. MaxTime + REFRESH_TOKEN_EXPIRE :
           (\E r \in refresh_tokens :
                /\ r.token_hash = hash_token(Tok("refresh", u, e))
                /\ (r.revoked \/ Expired(r)))
             ~> (\A r \in refresh_tokens : r.token_hash # hash_token(Tok("refresh", u, e)))
    /\ \A n \in 1 .. MaxResetTokens :
           (\E r \in password_reset_tokens :
                /\ r.token_hash = hash_token(n)
                /\ (r.used \/ Expired(r)))
             ~> (\A r \in password_reset_tokens : r.token_hash # hash_token(n))

\* C34: a confirm_reset that fails changes nothing.  A call sent with a token
\* that has no row, or whose row is used or expired or names a user without a
\* row, is answered 400 or 404 at once and has flushed no statement; and the
\* step in which a confirm_reset ends with anything but 200 (also one that is
\* cancelled or fails after its UPDATEs were flushed) leaves every password
\* hash, every reset row and every refresh row as they were.
C34_FailedConfirmChangesNothing ==
    [][/\ \A p \in Procs : Free(p) =>
              \A token \in 0 .. nonce, new_password \in Passwords :
                  LET found == {r \in password_reset_tokens : r.token_hash = hash_token(token)}
                      c == confirm_reset(p, token, new_password)
                  IN  (\A r \in found : r.used \/ r.expires_at < now \/ r.user_id \notin DOMAIN users)
                          => /\ c.pc = "done"
                             /\ c.result.status \in {400, 404}
                             /\ ~c.pwset /\ c.rused = {} /\ c.rev = {} /\ c.lck = {}
       /\ \A p \in Procs :
              (/\ tx[p].pc # "done" /\ tx'[p].pc = "done"
               /\ tx'[p].op = "confirm_reset" /\ tx'[p].result.status # 200)
                  => /\ users' = users
                     /\ password_reset_tokens' = password_reset_tokens
                     /\ refresh_tokens' = refresh_tokens]_vars

\* A confirm_reset with an expired token has been answered 400: the token's row
\* is still unused, the password is the old one, a refresh row is not revoked.
C34_Witness ==
    \E p \in Procs :
        /\ tx[p].op = "confirm_reset" /\ tx[p].pc = "done" /\ tx[p].result.status = 400
        /\ \E x \in password_reset_tokens :
               x.token_hash = hash_token(tx[p].rtoken) /\ ~x.used /\ x.expires_at < now
        /\ \E r \in refresh_tokens : ~r.revoked
        /\ \A u \in Users : verify_password("StrongPass1", users[u].password_hash)

\* C35: a request_reset for an email that no user has draws no token, flushes
\* no INSERT and no UPDATE and ends at once with the generic answer, and its
\* step leaves every table as it was; a request_reset for the email of user u
\* picks, marks and inserts rows of u only, and its commit leaves the reset
\* rows of every other user as they were.
C35_RequestResetFrame ==
    [][/\ \A p \in Procs : Free(p) =>
              \A email \in Emails \cup RegEmails :
                  LET c == request_reset(p, email)
                      found == get_by_email(email)
                  IN  /\ found = {} =>
                             /\ c.pc = "done" /\ c.result = Success(c)
                             /\ c.rtoken = Idle.rtoken /\ c.user = NoUser
                             /\ c.rins = {} /\ c.rused = {} /\ c.snap = {}
                      /\ \A u \in found :
                             /\ \A r \in c.rins : r.user_id = u
                             /\ \A r \in password_reset_tokens :
                                    r.token_hash \in c.rused \cup c.snap => r.user_id = u
       /\ \A p \in Procs :
              (tx[p].pc = "idle" /\ tx'[p].op = "request_reset" /\ tx'[p].user = NoUser)
                  => /\ tx'[p].pc = "done" /\ nonce' = nonce
                     /\ users' = users
                     /\ password_reset_tokens' = password_reset_tokens
                     /\ refresh_tokens' = refresh_tokens
       /\ \A p \in Procs :
              (tx[p].op = "request_reset" /\ tx[p].pc = "commit" /\ tx'[p].pc = "done")
                  => /\ \A r \in password_reset_tokens :
                            r.user_id # tx[p].user => r \in password_reset_tokens'
                     /\ \A r \in password_reset_tokens' \ password_reset_tokens :
                            r.user_id = tx[p].user]_vars

\* A request for an unknown email has been answered while a user holds an
\* unused reset token and another user, whose email a request can name, exists.
C35_Witness ==
    /\ \E p \in Procs :
           /\ tx[p].op = "request_reset" /\ tx[p].pc = "done" /\ tx[p].user = NoUser
           /\ tx[p].result.status = 200
    /\ \E r \in password_reset_tokens :
           /\ ~r.used
           /\ \E v \in DOMAIN users : v # r.user_id /\ users[v].email \in Emails \cup RegEmails

\* C36: what decode_access_token answers for a token depends on the token and
\* the clock only.  No step that leaves the clock alone (a login, a logout, a
\* rotation, a password reset, a purge, a rollback) changes the answer for any
\* token, and in every state the token is accepted exactly when it is a signed
\* access token whose exp does not lie before now.
C36_VerifyAccessIgnoresLedger ==
    [][/\ now' = now =>
              \A T \in AccessInputs : decode_access_token(T)' = decode_access_token(T)
       /\ \A T \in AccessInputs :
              (decode_access_token(T) = NoResponse) <=> (T.type = "access" /\ ~(T.exp < now))]_vars

\* The refresh token of a session has been logged out and its row is revoked or
\* purged, and the access token issued with it is still accepted.
C36_Witness ==
    \E T \in loggedOut :
        /\ \A r \in refresh_tokens : r.token_hash = hash_token(T) => r.revoked
        /\ decode_access_token(Tok("access", T.sub,
                                   T.exp - REFRESH_TOKEN_EXPIRE + ACCESS_TOKEN_EXPIRE)) = NoResponse
        /\ \A r \in refresh_tokens : r.user_id = T.sub => r.revoked

\* ------------------------------------------------------------- two accounts
\* The store after the account of the tests has changed its username and a
\* second account was registered: each of the two can log in with one of the
\* identifiers the clients send.
InitOwners ==
    /\ now = 0
    /\ users = [u \in {"u1", "u2"} |->
                  IF u = "u1"
                  THEN UserRow("u1@x.com", "bob", get_password_hash("StrongPass1"))
                  ELSE UserRow("bob@x.com", "alice", get_password_hash("StrongPass1"))]
    /\ refresh_tokens = {}
    /\ password_reset_tokens = {}
    /\ tx = [p \in Procs |-> Idle]
    /\ janitor = [pc |-> "sleep", snap |-> {}]
    /\ nonce = 0
    /\ calls = 0
    /\ budget = MaxCalls
    /\ rotated = {}
    /\ loggedOut = {}
    /\ confirmed = {}

\* Logins and refreshes of the two accounts, two at a time, over the clock.
NextOwners ==
    \/ \E p \in Procs : LoginBegin(p)
    \/ \E p \in Procs : LoginResume(p)
    \/ \E p \in Procs : RefreshBegin(p)
    \/ \E p \in Procs : RefreshResume(p)
    \/ \E p \in Procs : Commit(p)
    \/ \E p \in Procs : Cancel(p)
    \/ \E p \in Procs : Return(p)
    \/ Tick

SpecOwners == InitOwners /\ [][NextOwners]_vars

\* C37: rotation keeps the owner.  A refresh that has flushed its rotation, and
\* every refresh a client could send now that would get that far, inserts a row
\* whose user_id is the user_id of the presented row and holds an access and a
\* refresh token signed for that user; a refresh answered 200 has left the
\* presented row revoked and the successor's row stored under the same user,
\* and both tokens of the response have that user as subject.
C37_RotationKeepsOwner ==
    LET owned(t) ==
            /\ t.ins # {}
            /\ \E old \in refresh_tokens :
                   /\ old.token_hash = hash_token(t.token)
                   /\ \A r \in t.ins : r.user_id = old.user_id
                                        /\ r.token_hash = hash_token(t.newtok)
                   /\ t.access.sub = old.user_id /\ t.access.type = "access"
                   /\ t.newtok.sub = old.user_id /\ t.newtok.type = "refresh"
    IN  /\ \A p \in Procs :
               (tx[p].op = "refresh" /\ tx[p].pc = "commit") => owned(tx[p])
        /\ \A p \in Procs : Free(p) =>
               \A T \in RefreshInputs :
                   refresh_access_token(p, T).pc = "commit" => owned(refresh_access_token(p, T))
        /\ \A p \in Procs :
               (tx[p].op = "refresh" /\ tx[p].pc = "done" /\ tx[p].result.status = 200) =>
                   \E old \in refresh_tokens :
                       /\ old.token_hash = hash_token(tx[p].token) /\ old.revoked
                       /\ tx[p].result.access.sub = old.user_id
                       /\ tx[p].result.refresh.sub = old.user_id
                       /\ \E r \in refresh_tokens :
                              /\ r.token_hash = hash_token(tx[p].result.refresh)
                              /\ r.user_id = old.user_id /\ ~r.revoked

\* A refresh of one account has been answered 200 while the other account
\* holds a refresh row that is not revoked.
C37_Witness ==
    \E p \in Procs :
        /\ tx[p].op = "refresh" /\ tx[p].pc = "done" /\ tx[p].result.status = 200
        /\ \E r \in refresh_tokens : r.user_id # tx[p].result.refresh.sub /\ ~r.revoked

\* C38: an update_user whose new email or username is held by another user is
\* answered 409 ("Email already registered", else "Username already taken")
\* with no UPDATE flushed, and the step in which an update_user ends with a
\* response other than 200 leaves users as it was; an update that submits the
\* user's own email or username is no conflict: with nothing else submitted
\* it is answered 200 with the row as stored, and with a value no other user
\* holds it is never answered 409 by the lookups.
C38_UpdateConflict ==
    [][/\ \A p \in Procs : Free(p) =>
              \A u \in DOMAIN users, email \in RegEmails \cup {""},
                 username \in RegUsernames \cup {""} :
                  LET r == update_user(p, Tok("access", u, now + ACCESS_TOKEN_EXPIRE),
                                       email, username)
                      emailTaken == \E v \in DOMAIN users : v # u /\ users[v].email = email
                      nameTaken == \E v \in DOMAIN users : v # u /\ users[v].username = username
                      ownEmail == email \in {"", users[u].email}
                      ownName == username \in {"", users[u].username}
                  IN  /\ emailTaken =>
                             r = Done(r, ConflictException("Email already registered"))
                      /\ (~emailTaken /\ nameTaken) =>
                             r = Done(r, ConflictException("Username already taken"))
                      /\ (ownEmail /\ ownName) =>
                             r = Done(r, UserResponse(u, users[u]))
                      /\ (~emailTaken /\ ~nameTaken) =>
                             ~(r.pc = "done" /\ r.result.status = 409)
                      /\ r.pc = "done" => r.uupd = {}
       /\ \A p \in Procs :
              (/\ tx[p].pc # "done" /\ tx'[p].pc = "done"
               /\ tx'[p].op = "update_user" /\ tx'[p].result.status # 200)
                  => users' = users]_vars

\* An update_user has been answered 409 for an email that another user holds,
\* and the user who asked still has their own email.
C38_Witness ==
    \E p \in Procs :
        /\ tx[p].op = "update_user" /\ tx[p].pc = "done"
        /\ tx[p].result = ConflictException("Email already registered")
        /\ tx[p].user \in DOMAIN users /\ users[tx[p].user].email # tx[p].ident
        /\ \E v \in DOMAIN users : v # tx[p].user /\ users[v].email = tx[p].ident

====
